---- MODULE Spec2Model ----
(***************************************************************************)
(* Model of the MT5 analyzer backend: the parameter selection engine       *)
(* (MT5Parser.find_best_parameters), the .set flat-file codec              *)
(* (SetFileGenerator) and the preset store (PresetManager).                *)
(*                                                                         *)
(* Conventions.                                                            *)
(*  - An Optional[float] field is a sequence of length 0 (None) or 1       *)
(*    (<<v>>, the value v).                                                *)
(*  - Numbers are integers: the selection engine only compares them, and   *)
(*    Python compares int and float by numeric value.                      *)
(*  - A Python list of OptimizationResult objects holds references; the    *)
(*    lists filtered, top_results and result are sequences of positions    *)
(*    in optimization_results, which keeps object identity observable.     *)
(***************************************************************************)
EXTENDS Integers, Sequences, FiniteSets, TLC

VARIABLES
    optimization_results,   \* argument: sequence of OptimizationResult
    forward_results,        \* argument: [given, items]; given = FALSE is None
    criteria,               \* argument: [given, opts]; given = FALSE is None
    default_criteria,       \* local: the criteria in force after update()
    filtered,               \* local: survivors of the filter loop, then sorted
    top_results,            \* local: filtered[:top_n]
    result,                 \* the returned list
    reselected,             \* the list a second call on `result` returned
    pc,                     \* "call" before the call, "done" after it returned
    parameters,             \* generate_set_file argument: the dict's items
    preset_name,            \* generate_set_file argument
    now,                    \* datetime.now() as formatted by strftime
    lines,                  \* generate_set_file local: the list that is joined
    content,                \* the .set text generated, then parsed
    parsed,                 \* the dict parse_set_file returned
    cpc,                    \* "start", "generated", "parsed", "raised"
    presets,                \* PresetManager.presets: the dict from id to Preset
    clock,                  \* int(datetime.now().timestamp())
    call,                   \* the latest call of the manager and what it returned
    preset_ids,             \* compare_presets argument
    presets_data,           \* compare_presets local: the resolved presets
    detached,               \* presets presets_data refers to and the dict lost
    comparison,             \* compare_presets local, then its result
    metrics,                \* _calculate_metrics_comparison locals
    cmp_pc,                 \* position of the compare_presets call
    cmp_i,                  \* index of the loop the call is in
    seen,                   \* history: the key sets of the dict during the call
    adding,                 \* per request thread: its add_preset call
    rows,                   \* parse_backtest_report: the document's table rows
    bt_report,              \* a BacktestReport, once there is one
    as_dict,                \* what bt_report.to_dict() returned
    rpc,                    \* position of the backtest report calls
    file_type,              \* parse_optimization_report argument
    document,               \* the document of its file_content argument
    results,                \* the list it returned
    opc,                    \* its position, then its outcome
    metrics_args,           \* the arguments of StrategyMetrics(...)
    count,                  \* the length of the list of a request
    strategies,             \* PortfolioAnalysisRequest.strategies
    vpc,                    \* position of the two constructions
    exported,               \* the document export_presets returned
    target,                 \* the dict of the manager that imports
    xpc                     \* position of the export and the import

selVars == <<optimization_results, forward_results, criteria,
             default_criteria, filtered, top_results, result, reselected,
             pc>>

codecVars == <<parameters, preset_name, now, lines, content, parsed, cpc>>

storeVars == <<presets, clock, call>>

compareVars == <<preset_ids, presets_data, detached, comparison, metrics,
                 cmp_pc, cmp_i, seen>>

raceVars == <<adding>>

reportVars == <<rows, bt_report, as_dict, rpc>>

optVars == <<file_type, document, results, opc>>

portVars == <<metrics_args, count, strategies, vpc>>

xferVars == <<exported, target, xpc>>

raceRest == <<reportVars, optVars, portVars, xferVars>>

reportRest == <<raceVars, optVars, portVars, xferVars>>

optRest == <<raceVars, reportVars, portVars, xferVars>>

portRest == <<raceVars, reportVars, optVars, xferVars>>

xferRest == <<raceVars, reportVars, optVars, portVars>>

moreVars == <<raceVars, reportVars, optVars, portVars, xferVars>>

vars == <<selVars, codecVars, storeVars, compareVars, moreVars>>

(***************************************************************************)
(* Bounds of the model.                                                    *)
(***************************************************************************)
MaxRecs == 3        \* optimization records per call
MaxFwd == 2         \* forward records per call
MaxFwdOpt == 2      \* optimization records per cross-validated call
MaxNameLen == 2     \* characters of a parameter name
MaxStrLen == 2      \* characters of a text parameter value
MaxParams == 2      \* parameters of a mapping with several entries
MaxPresetLen == 2   \* characters of a preset name
MaxTopN == 2        \* largest top_n a caller supplies
MaxStore == 2       \* presets in the store before a call that adds some
MaxClock == 1       \* seconds the clock advances
MaxImport == 1      \* presets in an imported list
MaxCmp == 2         \* presets in a store that is compared
MaxReq == 3         \* ids in a compare request

(***************************************************************************)
(* Python values.                                                          *)
(***************************************************************************)
None == <<>>

Some(v) == <<v>>

\* bool(x) of an Optional number: None, 0 and 0.0 are falsy.
Truthy(x) == x # None /\ x[1] # 0

Min(a, b) == IF a <= b THEN a ELSE b

Max(a, b) == IF a >= b THEN a ELSE b

\* A parameter value with its Python type: v is the number of a bool (0 or 1,
\* bool being a subtype of int), int or float, s is the text of a str.
PyVal(t, v) == [t |-> t, v |-> v, s |-> <<>>]

StrVal(text) == [t |-> "str", v |-> 0, s |-> text]

\* a == b for two parameter values: bool, int and float compare by numeric
\* value, a str equals only an equal str.
PyEq(a, b) ==
    IF a.t = "str" \/ b.t = "str"
    THEN a.t = b.t /\ a.s = b.s
    ELSE a.v = b.v

\* p == q for two parameters dicts: same keys, == on every value.
DictEq(p, q) ==
    /\ DOMAIN p = DOMAIN q
    /\ \A k \in DOMAIN p : PyEq(p[k], q[k])

(***************************************************************************)
(* find_best_parameters                                                    *)
(***************************************************************************)
CriteriaKeys ==
    {"min_profit", "min_profit_factor", "min_trades", "max_drawdown",
     "min_sharpe", "min_recovery", "top_n"}

\* Variant: min_trades defaults to 0.
DefaultCriteriaWrongTrades ==
    [min_profit |-> Some(0), min_profit_factor |-> Some(1),
     min_trades |-> Some(0), max_drawdown |-> None, min_sharpe |-> None,
     min_recovery |-> None, top_n |-> Some(10)]

\* default_criteria as constructed at the start of the call.
DefaultCriteria ==
    [min_profit |-> Some(0), min_profit_factor |-> Some(1),
     min_trades |-> Some(10), max_drawdown |-> None, min_sharpe |-> None,
     min_recovery |-> None, top_n |-> Some(10)]

\* if criteria: default_criteria.update(criteria)
\* (None and the empty dict are both falsy and leave the defaults.)
MergeCriteria(c) ==
    IF c.given /\ DOMAIN c.opts # {}
    THEN [k \in CriteriaKeys |->
            IF k \in DOMAIN c.opts THEN c.opts[k] ELSE DefaultCriteria[k]]
    ELSE DefaultCriteria

\* Variant: an absent profit_factor counts as 0.
ExcludedNoneAsZero(r, dc) ==
    \/ r.profit < dc.min_profit[1]
    \/ (IF r.profit_factor = None THEN 0 ELSE r.profit_factor[1])
          < dc.min_profit_factor[1]
    \/ r.total_trades < dc.min_trades[1]
    \/ Truthy(dc.max_drawdown) /\ Truthy(r.drawdown_percent)
          /\ r.drawdown_percent[1] > dc.max_drawdown[1]
    \/ Truthy(dc.min_sharpe) /\ Truthy(r.sharpe_ratio)
          /\ r.sharpe_ratio[1] < dc.min_sharpe[1]
    \/ Truthy(dc.min_recovery) /\ Truthy(r.recovery_factor)
          /\ r.recovery_factor[1] < dc.min_recovery[1]

\* The six `continue` conditions of the filter loop, in order.
Excluded(r, dc) ==
    \/ r.profit < dc.min_profit[1]
    \/ Truthy(r.profit_factor)
          /\ r.profit_factor[1] < dc.min_profit_factor[1]
    \/ r.total_trades < dc.min_trades[1]
    \/ Truthy(dc.max_drawdown) /\ Truthy(r.drawdown_percent)
          /\ r.drawdown_percent[1] > dc.max_drawdown[1]
    \/ Truthy(dc.min_sharpe) /\ Truthy(r.sharpe_ratio)
          /\ r.sharpe_ratio[1] < dc.min_sharpe[1]
    \/ Truthy(dc.min_recovery) /\ Truthy(r.recovery_factor)
          /\ r.recovery_factor[1] < dc.min_recovery[1]

RECURSIVE FilterFrom(_, _, _)
\* The filter loop from position i on: appends every record not excluded.
FilterFrom(R, dc, i) ==
    IF i > Len(R) THEN <<>>
    ELSE (IF Excluded(R[i], dc) THEN <<>> ELSE <<i>>)
            \o FilterFrom(R, dc, i + 1)

FilterRecords(R, dc) == FilterFrom(R, dc, 1)

\* Position at which x goes into the profit-descending sequence s so that it
\* follows every element whose profit is not smaller.
InsertPos(R, s, x) ==
    Cardinality({j \in 1..Len(s) : R[s[j]].profit >= R[x].profit}) + 1

InsertByProfit(R, s, x) ==
    LET p == InsertPos(R, s, x)
    IN SubSeq(s, 1, p - 1) \o <<x>> \o SubSeq(s, p, Len(s))

RECURSIVE SortUnstable(_, _)
\* Variant: a profit-descending sort that reverses the order of ties.
SortUnstable(R, s) ==
    IF s = <<>> THEN <<>>
    ELSE LET rest == SortUnstable(R, Tail(s))
             x == Head(s)
             p == Cardinality({j \in 1..Len(rest) :
                                 R[rest[j]].profit >= R[x].profit}) + 1
         IN SubSeq(rest, 1, p - 1) \o <<x>> \o SubSeq(rest, p, Len(rest))

RECURSIVE SortFrom(_, _, _)
SortFrom(R, s, acc) ==
    IF s = <<>> THEN acc
    ELSE SortFrom(R, Tail(s), InsertByProfit(R, acc, Head(s)))

\* filtered.sort(key=lambda x: x.profit, reverse=True): list.sort is stable,
\* and with reverse=True equal keys still keep their original order.
SortByProfitDesc(R, s) == SortFrom(R, s, <<>>)

\* Variant: s[:n + 1]
SliceOffByOne(s, n) == SubSeq(s, 1, Min(n + 1, Len(s)))

\* s[:n]
Slice(s, n) ==
    IF n >= 0 THEN SubSeq(s, 1, Min(n, Len(s)))
    ELSE SubSeq(s, 1, Max(Len(s) + n, 0))

RECURSIVE ForwardProfitableAny(_, _, _)
\* Variant: no `break`, any profitable record with equal parameters decides.
ForwardProfitableAny(p, F, j) ==
    IF j > Len(F) THEN FALSE
    ELSE IF DictEq(p, F[j].parameters) /\ F[j].profit > 0 THEN TRUE
         ELSE ForwardProfitableAny(p, F, j + 1)

RECURSIVE ForwardProfitable(_, _, _)
\* The inner loop over forward_results from position j on: the first record
\* with equal parameters decides, then `break`.
ForwardProfitable(p, F, j) ==
    IF j > Len(F) THEN FALSE
    ELSE IF DictEq(p, F[j].parameters) THEN F[j].profit > 0
         ELSE ForwardProfitable(p, F, j + 1)

RECURSIVE ValidateFrom(_, _, _, _)
\* The outer loop over top_results from position i on.
ValidateFrom(R, top, F, i) ==
    IF i > Len(top) THEN <<>>
    ELSE (IF ForwardProfitable(R[top[i]].parameters, F, 1)
          THEN <<top[i]>> ELSE <<>>)
            \o ValidateFrom(R, top, F, i + 1)

RECURSIVE ValidateForwardOrder(_, _, _)
\* Variant: the loops nested the other way round, output in forward order.
ValidateForwardOrder(R, top, F) ==
    IF F = <<>> THEN <<>>
    ELSE LET n == Len(F)
             decidedByLast(i) ==
                 /\ DictEq(R[i].parameters, F[n].parameters)
                 /\ F[n].profit > 0
                 /\ \A j \in 1..(n - 1) :
                       ~DictEq(R[i].parameters, F[j].parameters)
         IN ValidateForwardOrder(R, top, SubSeq(F, 1, n - 1))
              \o SelectSeq(top, decidedByLast)

Validate(R, top, F) == ValidateFrom(R, top, F, 1)

\* The locals and the return value of one call, as a record.
Select(R, F, c) ==
    IF R = <<>>
    THEN [dc |-> DefaultCriteria, filtered |-> <<>>, top |-> <<>>,
          result |-> <<>>]
    ELSE LET dc == MergeCriteria(c)
             flt == SortByProfitDesc(R, FilterRecords(R, dc))
             top == Slice(flt, dc.top_n[1])
         IN [dc |-> dc, filtered |-> flt, top |-> top,
             result |-> IF F.given /\ F.items # <<>>
                        THEN Validate(R, top, F.items)
                        ELSE top]

FindBestParameters ==
    /\ pc = "call"
    /\ LET out == Select(optimization_results, forward_results, criteria)
       IN /\ default_criteria' = out.dc
          /\ filtered' = out.filtered
          /\ top_results' = out.top
          /\ result' = out.result
    /\ pc' = "done"
    /\ UNCHANGED <<optimization_results, forward_results, criteria,
                   reselected>>
    /\ UNCHANGED <<codecVars, storeVars, compareVars, moreVars>>

\* The objects a list of references holds, in its order.
Deref(R, refs) == [k \in 1..Len(refs) |-> R[refs[k]]]

\* find_best_parameters(result, criteria=criteria): a second call, on the
\* list the first call returned; its result refers to the same objects.
SelectAgain ==
    /\ pc = "done"
    /\ LET again == Select(Deref(optimization_results, result),
                           forward_results, criteria).result
       IN reselected' = Deref(result, again)
    /\ pc' = "again"
    /\ UNCHANGED <<optimization_results, forward_results, criteria,
                   default_criteria, filtered, top_results, result>>
    /\ UNCHANGED <<codecVars, storeVars, compareVars, moreVars>>

(***************************************************************************)
(* Text.  A str is a sequence of one-character strings.                    *)
(***************************************************************************)
FloatDecimals == 8      \* the precision of the format spec ".8f"

Digits == <<"0", "1", "2", "3", "4", "5", "6", "7", "8", "9">>

DigitChars == {Digits[i] : i \in 1..10}

DigitValue(c) == (CHOOSE i \in 1..10 : Digits[i] = c) - 1

RECURSIVE Pow10(_)
Pow10(n) == IF n = 0 THEN 1 ELSE 10 * Pow10(n - 1)

RECURSIVE NatToText(_)
NatToText(n) ==
    IF n < 10 THEN <<Digits[n + 1]>>
    ELSE NatToText(n \div 10) \o <<Digits[(n % 10) + 1]>>

\* str(n) for an int
IntToText(n) == IF n < 0 THEN <<"-">> \o NatToText(-n) ELSE NatToText(n)

RECURSIVE ZeroPad(_, _)
ZeroPad(t, w) == IF Len(t) >= w THEN t ELSE ZeroPad(<<"0">> \o t, w)

RECURSIVE DigitsToNat(_)
DigitsToNat(t) ==
    IF t = <<>> THEN 0
    ELSE 10 * DigitsToNat(SubSeq(t, 1, Len(t) - 1)) + DigitValue(t[Len(t)])

AllDigits(t) == t # <<>> /\ \A i \in 1..Len(t) : t[i] \in DigitChars

\* A float is the integer number of its units of 10^-(FloatDecimals+1): one
\* decimal digit more than the format keeps.
\* Variant: cuts the digits beyond FloatDecimals off instead of rounding.
FloatToTextTruncating(u) ==
    LET a == IF u < 0 THEN -u ELSE u
        q == a \div 10
    IN (IF u < 0 THEN <<"-">> ELSE <<>>)
         \o NatToText(q \div Pow10(FloatDecimals)) \o <<".">>
         \o ZeroPad(NatToText(q % Pow10(FloatDecimals)), FloatDecimals)

\* f"{x:.8f}": rounds to FloatDecimals decimals (ties to even), keeps the sign
\* of a negative value that rounds to zero.
FloatToText(u) ==
    LET a == IF u < 0 THEN -u ELSE u
        lo == a \div 10
        r == a % 10
        q == IF r > 5 \/ (r = 5 /\ lo % 2 = 1) THEN lo + 1 ELSE lo
    IN (IF u < 0 THEN <<"-">> ELSE <<>>)
         \o NatToText(q \div Pow10(FloatDecimals)) \o <<".">>
         \o ZeroPad(NatToText(q % Pow10(FloatDecimals)), FloatDecimals)

Whitespace == {" ", "\n"}

RECURSIVE LStrip(_)
LStrip(t) ==
    IF t # <<>> /\ Head(t) \in Whitespace THEN LStrip(Tail(t)) ELSE t

RECURSIVE RStrip(_)
RStrip(t) ==
    IF t # <<>> /\ t[Len(t)] \in Whitespace
    THEN RStrip(SubSeq(t, 1, Len(t) - 1)) ELSE t

\* Variant: str.lstrip()
StripLeftOnly(t) == LStrip(t)

\* str.strip()
Strip(t) == RStrip(LStrip(t))

\* Positions at which the text sep occurs in t.
Occurrences(t, sep) ==
    {i \in 1..(Len(t) - Len(sep) + 1) : SubSeq(t, i, i + Len(sep) - 1) = sep}

\* t.find(sep) as a 1-based position, 0 when sep does not occur.
Find(t, sep) ==
    LET occ == Occurrences(t, sep)
    IN IF occ = {} THEN 0 ELSE CHOOSE i \in occ : \A j \in occ : i <= j

RECURSIVE Split(_, _)
\* t.split(sep)
Split(t, sep) ==
    LET i == Find(t, sep)
    IN IF i = 0 THEN <<t>>
       ELSE <<SubSeq(t, 1, i - 1)>>
              \o Split(SubSeq(t, i + Len(sep), Len(t)), sep)

\* t.split(sep, 1), for a t that contains sep
SplitOnce(t, sep) ==
    LET i == Find(t, sep)
    IN <<SubSeq(t, 1, i - 1), SubSeq(t, i + Len(sep), Len(t))>>

RECURSIVE Join(_, _)
\* sep.join(parts)
Join(parts, sep) ==
    IF parts = <<>> THEN <<>>
    ELSE IF Len(parts) = 1 THEN parts[1]
    ELSE parts[1] \o sep \o Join(Tail(parts), sep)

UpperLetters ==
    <<"A", "B", "C", "D", "E", "F", "G", "H", "I", "J", "K", "L", "M",
      "N", "O", "P", "Q", "R", "S", "T", "U", "V", "W", "X", "Y", "Z">>

LowerLetters ==
    <<"a", "b", "c", "d", "e", "f", "g", "h", "i", "j", "k", "l", "m",
      "n", "o", "p", "q", "r", "s", "t", "u", "v", "w", "x", "y", "z">>

LowerChar(c) ==
    IF \E i \in 1..Len(UpperLetters) : UpperLetters[i] = c
    THEN LowerLetters[CHOOSE i \in 1..Len(UpperLetters) : UpperLetters[i] = c]
    ELSE c

\* str.lower()
Lower(t) == [i \in 1..Len(t) |-> LowerChar(t[i])]

\* int(t) succeeds: an optional sign and digits (t is already stripped).
IsIntText(t) ==
    \/ AllDigits(t)
    \/ t # <<>> /\ Head(t) \in {"-", "+"} /\ AllDigits(Tail(t))

TextToInt(t) ==
    IF Head(t) = "-" THEN -DigitsToNat(Tail(t))
    ELSE IF Head(t) = "+" THEN DigitsToNat(Tail(t))
    ELSE DigitsToNat(t)

Unsigned(t) == IF t # <<>> /\ Head(t) \in {"-", "+"} THEN Tail(t) ELSE t

\* float(t) succeeds: an optional sign, digits with at most one point and at
\* least one digit.
IsFloatText(t) ==
    LET b == Unsigned(t)
        pts == {i \in 1..Len(b) : b[i] = "."}
    IN /\ \A i \in 1..Len(b) : b[i] \in DigitChars \cup {"."}
       /\ Cardinality(pts) <= 1
       /\ \E i \in 1..Len(b) : b[i] \in DigitChars

\* float(t) in units of 10^-(FloatDecimals+1); decimals beyond that precision
\* are cut off.
TextToFloat(t) ==
    LET b == Unsigned(t)
        p == Find(b, <<".">>)
        whole == IF p = 0 THEN b ELSE SubSeq(b, 1, p - 1)
        frac == IF p = 0 THEN <<>> ELSE SubSeq(b, p + 1, Len(b))
        w == FloatDecimals + 1
        f == IF Len(frac) >= w THEN SubSeq(frac, 1, w)
             ELSE frac \o [i \in 1..(w - Len(frac)) |-> "0"]
        a == DigitsToNat(whole) * Pow10(w) + DigitsToNat(f)
    IN IF t # <<>> /\ Head(t) = "-" THEN -a ELSE a

(***************************************************************************)
(* SetFileGenerator                                                        *)
(***************************************************************************)
SavedOn ==
    <<";", " ", "s", "a", "v", "e", "d", " ", "a", "u", "t", "o", "m", "a",
      "t", "i", "c", "a", "l", "l", "y", " ", "o", "n", " ">>

ThisFile ==
    <<";", " ", "t", "h", "i", "s", " ", "f", "i", "l", "e", " ", "c", "o",
      "n", "t", "a", "i", "n", "s", " ", "l", "a", "s", "t", " ", "u", "s",
      "e", "d", " ", "i", "n", "p", "u", "t", " ", "p", "a", "r", "a", "m",
      "e", "t", "e", "r", "s", " ", "f", "o", "r", " ", "t", "e", "s", "t",
      "i", "n", "g", "/", "o", "p", "t", "i", "m", "i", "z", "i", "n", "g",
      " ">>

ExpertAdvisor ==
    <<" ", "e", "x", "p", "e", "r", "t", " ", "a", "d", "v", "i", "s", "o",
      "r">>

TrueText == <<"t", "r", "u", "e">>

FalseText == <<"f", "a", "l", "s", "e">>

BoolTag == <<"b", "o", "o", "l">>

IntTag == <<"i", "n", "t">>

DoubleTag == <<"d", "o", "u", "b", "l", "e">>

StringTag == <<"s", "t", "r", "i", "n", "g">>

Bars == <<"|", "|">>

\* The isinstance chain: value text and type tag of one parameter value.
\* (The final else branch, str(param_value) of another type, has the same tag
\* as a str.)
ValueText(x) ==
    CASE x.t = "bool" -> IF x.v = 1 THEN TrueText ELSE FalseText
      [] x.t = "int" -> IntToText(x.v)
      [] x.t = "float" -> FloatToText(x.v)
      [] OTHER -> x.s

\* Variant: the int test before the bool test, so a bool is tagged int.
TypeTagBoolAsInt(x) ==
    CASE x.t = "bool" -> IntTag
      [] x.t = "int" -> IntTag
      [] x.t = "float" -> DoubleTag
      [] OTHER -> StringTag

TypeTag(x) ==
    CASE x.t = "bool" -> BoolTag
      [] x.t = "int" -> IntTag
      [] x.t = "float" -> DoubleTag
      [] OTHER -> StringTag

\* f"{param_name}={value_str}||{param_type}||"
ParamLine(item) ==
    item.name \o <<"=">> \o ValueText(item.value) \o Bars
      \o TypeTag(item.value) \o Bars

\* The list `lines` of generate_set_file(parameters, preset_name) at the time
\* stamp `stamp`.  parameters is the dict as the sequence of its items in
\* insertion order.
GenerateLines(params, name, stamp) ==
    <<SavedOn \o stamp, ThisFile \o name \o ExpertAdvisor, <<";">>>>
      \o [i \in 1..Len(params) |-> ParamLine(params[i])]

\* content = "\n".join(lines)
GenerateText(params, name, stamp) ==
    Join(GenerateLines(params, name, stamp), <<"\n">>)

\* The exception int() and float() raise on a text they cannot convert, as a
\* value of the shape of the other values.
ValueError == [t |-> "ValueError", v |-> 0, s |-> <<>>]

\* int(value_str)
IntOf(value_str) ==
    IF IsIntText(value_str) THEN PyVal("int", TextToInt(value_str))
    ELSE ValueError

\* float(value_str)
FloatOf(value_str) ==
    IF IsFloatText(value_str) THEN PyVal("float", TextToFloat(value_str))
    ELSE ValueError

\* Variant: no except clause, the exception leaves the handler.
TryUncaught(r, fallback) == r

\* try: param_value = r / except: param_value = fallback
Try(r, fallback) == IF r = ValueError THEN fallback ELSE r

\* The conversion of value_str under param_type.
ConvertValue(value_str, param_type) ==
    CASE param_type = BoolTag ->
           PyVal("bool", IF Lower(value_str) = TrueText THEN 1 ELSE 0)
      [] param_type = IntTag -> Try(IntOf(value_str), PyVal("int", 0))
      [] param_type = DoubleTag -> Try(FloatOf(value_str), PyVal("float", 0))
      [] OTHER -> StrVal(value_str)

\* d[k] = v on a dict held as a function
DictPut(d, k, v) ==
    [x \in DOMAIN d \cup {k} |-> IF x = k THEN v ELSE d[x]]

\* The body of the loop for one line of the content.
ParseLine(d, raw) ==
    LET line == Strip(raw)
    IN IF line = <<>> \/ Head(line) = ";" THEN d
       ELSE IF Find(line, <<"=">>) = 0 THEN d
       ELSE LET parts == SplitOnce(line, <<"=">>)
                param_name == Strip(parts[1])
                value_parts == Split(parts[2], Bars)
                value_str == Strip(value_parts[1])
                param_type == IF Len(value_parts) > 1
                              THEN Strip(value_parts[2]) ELSE StringTag
            IN DictPut(d, param_name, ConvertValue(value_str, param_type))

RECURSIVE ParseLines(_, _)
ParseLines(d, ls) ==
    IF ls = <<>> THEN d
    ELSE ParseLines(ParseLine(d, Head(ls)), Tail(ls))

\* parse_set_file(content): the dict as a function from name to value.
ParseText(text) == ParseLines(<<>>, Split(text, <<"\n">>))

GenerateSetFile ==
    /\ cpc = "start"
    /\ lines' = GenerateLines(parameters, preset_name, now)
    /\ content' = GenerateText(parameters, preset_name, now)
    /\ cpc' = "generated"
    /\ UNCHANGED <<parameters, preset_name, now, parsed>>
    /\ UNCHANGED <<selVars, storeVars, compareVars, moreVars>>

\* An exception that reaches the loop body ends the call without a result.
Raises(d) == \E k \in DOMAIN d : d[k] = ValueError

ParseSetFile ==
    /\ cpc = "generated"
    /\ LET d == ParseText(content)
       IN IF Raises(d) THEN parsed' = parsed /\ cpc' = "raised"
          ELSE parsed' = d /\ cpc' = "parsed"
    /\ UNCHANGED <<parameters, preset_name, now, lines, content>>
    /\ UNCHANGED <<selVars, storeVars, compareVars, moreVars>>

(***************************************************************************)
(* PresetManager                                                           *)
(*                                                                         *)
(* An id is [n, t]: the generated text preset_{n}_{t}; n = 0 stands for an  *)
(* id of another form, which only a caller supplies.                       *)
(* A backtest report is a dict: each metric key is Missing or Present(x)   *)
(* with x an Optional number, and `other` tells whether the dict has keys   *)
(* besides the five metrics.  Preset.backtest_report is None or <<dict>>.  *)
(* The reports of the model hold numbers under total_net_profit,           *)
(* maximal_drawdown and profit_factor, as BacktestReport.to_dict writes    *)
(* them.                                                                   *)
(***************************************************************************)
Missing == <<>>

Present(x) == <<x>>

MetricKeys ==
    {"total_net_profit", "maximal_drawdown", "profit_factor", "sharpe_ratio",
     "recovery_factor"}

\* float('inf'): above every metric value of the model
PosInf == 1000000

NegInf == -PosInf

\* report.get(k, default)
Get(report, k, default) ==
    IF report[k] = Missing THEN default ELSE report[k][1]

\* bool(preset.backtest_report): None and the empty dict are falsy.
ReportTruthy(br) ==
    /\ br # None
    /\ br[1].other \/ \E k \in MetricKeys : br[1][k] # Missing

\* Preset(id=..., name=..., parameters=..., optimization_metrics=...): the
\* report is None, created_at is the time of construction, notes are empty.
NewPreset(name, params, om, created) ==
    [name |-> name, parameters |-> params, optimization_metrics |-> om,
     backtest_report |-> None, created_at |-> created, notes |-> ""]

\* f"preset_{len(self.presets) + 1}_{int(datetime.now().timestamp())}"
GeneratedId(store, t) == [n |-> Cardinality(DOMAIN store) + 1, t |-> t]

\* self.presets.get(preset_id)
GetPreset(store, id) == IF id \in DOMAIN store THEN Some(store[id]) ELSE None

\* Variant: drops every preset.
RemoveAll(store, id) == [x \in {} |-> store[x]]

\* del self.presets[preset_id]
Remove(store, id) == [x \in DOMAIN store \ {id} |-> store[x]]

\* Variant: attaches the report to every preset.
AttachAll(store, id, report) ==
    [x \in DOMAIN store |-> [store[x] EXCEPT !.backtest_report = Some(report)]]

\* self.presets[preset_id].backtest_report = backtest_report
Attach(store, id, report) ==
    [store EXCEPT ![id].backtest_report = Some(report)]

\* The presets of an imported list put into the dict one after the other.
RECURSIVE PutAll(_, _)
PutAll(store, items) ==
    IF items = <<>> THEN store
    ELSE PutAll(DictPut(store, Head(items).id, Head(items).preset),
                Tail(items))

\* The record of a call: its operation, its id argument or the id it made,
\* its report argument, and what it returned (ok, or the count n).
Call(op, id, report, ok, n) ==
    [op |-> op, id |-> id, report |-> report, ok |-> ok, n |-> n]

NoId == [n |-> 0, t |-> 0]

ComparingNow == cmp_pc \in {"resolve", "build", "metrics"}

\* A preset that leaves the dict stays alive while presets_data refers to it.
Detach(gone) ==
    LET held == {presets_data[i] : i \in 1..Len(presets_data)} \cap gone
    IN [x \in DOMAIN detached \cup held |->
          IF x \in held THEN presets[x] ELSE detached[x]]

SeenAfter(store) ==
    IF ComparingNow THEN seen \cup {DOMAIN store} ELSE seen

\* Variant: puts a resolved preset in front of the earlier ones.
ResolveStepInFront(pd, store, id) ==
    IF GetPreset(store, id) # None THEN <<id>> \o pd ELSE pd

\* One pass of the loop that resolves the requested ids.
ResolveStep(pd, store, id) ==
    IF GetPreset(store, id) # None THEN Append(pd, id) ELSE pd

RECURSIVE ResolveFrom(_, _, _)
ResolveFrom(pd, store, ids) ==
    IF ids = <<>> THEN pd
    ELSE ResolveFrom(ResolveStep(pd, store, Head(ids)), store, Tail(ids))

EmptyChart ==
    [labels |-> <<>>, profit |-> <<>>, drawdown |-> <<>>,
     profit_factor |-> <<>>, sharpe_ratio |-> <<>>, recovery_factor |-> <<>>]

\* {"error": "No valid presets found"}
ErrorResult ==
    [error |-> TRUE, presets |-> <<>>, metrics_comparison |-> <<>>,
     chart_data |-> EmptyChart]

\* The dict `comparison` as it is created.
NewComparison ==
    [error |-> FALSE, presets |-> <<>>, metrics_comparison |-> <<>>,
     chart_data |-> EmptyChart]

\* preset_info; backtest_metrics is None where the key is not set.
PresetInfo(id, p) ==
    [id |-> id, name |-> p.name, parameters |-> p.parameters,
     optimization_metrics |-> p.optimization_metrics,
     backtest_metrics |-> IF ReportTruthy(p.backtest_report)
                          THEN p.backtest_report ELSE None]

ChartAppend(chart, p) ==
    LET report == p.backtest_report[1]
    IN [labels |-> Append(chart.labels, p.name),
        profit |-> Append(chart.profit,
                          Get(report, "total_net_profit", Some(0))),
        drawdown |-> Append(chart.drawdown,
                            Get(report, "maximal_drawdown", Some(0))),
        profit_factor |-> Append(chart.profit_factor,
                                 Get(report, "profit_factor", Some(0))),
        sharpe_ratio |-> Append(chart.sharpe_ratio,
                                Get(report, "sharpe_ratio", Some(0))),
        recovery_factor |-> Append(chart.recovery_factor,
                                   Get(report, "recovery_factor", Some(0)))]

\* One pass of the loop that fills the summary list and the chart arrays.
BuildStep(c, id, p) ==
    [c EXCEPT !.presets = Append(@, PresetInfo(id, p)),
              !.chart_data = IF ReportTruthy(p.backtest_report)
                             THEN ChartAppend(@, p) ELSE @]

RECURSIVE BuildFrom(_, _, _)
BuildFrom(c, store, pd) ==
    IF pd = <<>> THEN c
    ELSE BuildFrom(BuildStep(c, Head(pd), store[Head(pd)]), store, Tail(pd))

NoMetrics ==
    [best_profit |-> None, best_sharpe |-> None, best_recovery |-> None,
     lowest_drawdown |-> None, best_profit_factor |-> None]

\* The locals of _calculate_metrics_comparison before its loop.
InitMetrics ==
    [metrics |-> NoMetrics, best_profit_value |-> NegInf,
     best_sharpe_value |-> NegInf, best_recovery_value |-> NegInf,
     lowest_drawdown_value |-> PosInf, best_pf_value |-> NegInf]

\* One pass of the loop of _calculate_metrics_comparison.
MetricsStep(m, id, p) ==
    IF ~ReportTruthy(p.backtest_report) THEN m
    ELSE
      LET report == p.backtest_report[1]
          profit == Get(report, "total_net_profit", Some(0))[1]
          sharpe == Get(report, "sharpe_ratio", Some(0))
          recovery == Get(report, "recovery_factor", Some(0))
          drawdown == Get(report, "maximal_drawdown", Some(PosInf))[1]
          pf == Get(report, "profit_factor", Some(0))[1]
          Best(v) == Some([preset_id |-> id, name |-> p.name, value |-> v])
          m1 == IF profit > m.best_profit_value
                THEN [m EXCEPT !.best_profit_value = profit,
                               !.metrics.best_profit = Best(profit)]
                ELSE m
          m2 == IF Truthy(sharpe) /\ sharpe[1] > m1.best_sharpe_value
                THEN [m1 EXCEPT !.best_sharpe_value = sharpe[1],
                                !.metrics.best_sharpe = Best(sharpe[1])]
                ELSE m1
          m3 == IF Truthy(recovery) /\ recovery[1] > m2.best_recovery_value
                THEN [m2 EXCEPT !.best_recovery_value = recovery[1],
                                !.metrics.best_recovery = Best(recovery[1])]
                ELSE m2
          m4 == IF drawdown < m3.lowest_drawdown_value
                THEN [m3 EXCEPT !.lowest_drawdown_value = drawdown,
                                !.metrics.lowest_drawdown = Best(drawdown)]
                ELSE m3
      IN IF pf > m4.best_pf_value
         THEN [m4 EXCEPT !.best_pf_value = pf,
                         !.metrics.best_profit_factor = Best(pf)]
         ELSE m4

RECURSIVE MetricsFrom(_, _, _)
MetricsFrom(m, store, pd) ==
    IF pd = <<>> THEN m
    ELSE MetricsFrom(MetricsStep(m, Head(pd), store[Head(pd)]), store,
                     Tail(pd))

\* _calculate_metrics_comparison(presets_data)
CalculateMetricsComparison(store, pd) ==
    MetricsFrom(InitMetrics, store, pd).metrics

\* compare_presets(preset_ids) on a dict that no other call touches.
Compare(store, ids) ==
    LET pd == ResolveFrom(<<>>, store, ids)
    IN IF pd = <<>> THEN ErrorResult
       ELSE [BuildFrom(NewComparison, store, pd) EXCEPT
               !.metrics_comparison = CalculateMetricsComparison(store, pd)]

(***************************************************************************)
(* The calls of the manager, each as one step.                             *)
(***************************************************************************)
\* add_preset(name, parameters, optimization_metrics, preset_id)
AddPreset(args, preset_id) ==
    /\ Cardinality(DOMAIN presets) < MaxStore
    /\ LET id == IF preset_id = None THEN GeneratedId(presets, clock)
                 ELSE preset_id[1]
       IN /\ presets' = DictPut(presets, id,
                                NewPreset(args.name, args.parameters,
                                          args.optimization_metrics, clock))
          /\ call' = Call(IF preset_id = None THEN "add" ELSE "add_with_id",
                          id, None, TRUE, 0)
          /\ seen' = SeenAfter(presets')
          /\ detached' = Detach(IF id \in DOMAIN presets THEN {id} ELSE {})
    /\ UNCHANGED moreVars
    /\ UNCHANGED <<selVars, codecVars, clock, preset_ids, presets_data,
                   comparison, metrics, cmp_pc, cmp_i>>

\* update_preset_backtest(preset_id, backtest_report)
UpdatePresetBacktest(preset_id, backtest_report) ==
    /\ IF preset_id \notin DOMAIN presets
       THEN /\ presets' = presets
            /\ call' = Call("update", preset_id, Some(backtest_report),
                            FALSE, 0)
       ELSE /\ presets' = Attach(presets, preset_id, backtest_report)
            /\ call' = Call("update", preset_id, Some(backtest_report),
                            TRUE, 0)
    /\ UNCHANGED moreVars
    /\ UNCHANGED <<selVars, codecVars, clock, compareVars>>

\* delete_preset(preset_id)
DeletePreset(preset_id) ==
    /\ IF preset_id \in DOMAIN presets
       THEN /\ presets' = Remove(presets, preset_id)
            /\ call' = Call("delete", preset_id, None, TRUE, 0)
            /\ detached' = Detach({preset_id})
       ELSE /\ presets' = presets
            /\ call' = Call("delete", preset_id, None, FALSE, 0)
            /\ detached' = detached
    /\ seen' = SeenAfter(presets')
    /\ UNCHANGED moreVars
    /\ UNCHANGED <<selVars, codecVars, clock, preset_ids, presets_data,
                   comparison, metrics, cmp_pc, cmp_i>>

\* import_presets(json_data), json_data holding the list `items`
ImportPresets(items) ==
    /\ Cardinality(DOMAIN PutAll(presets, items)) <= MaxStore
    /\ presets' = PutAll(presets, items)
    /\ call' = Call("import", NoId, None, TRUE, Len(items))
    /\ seen' = SeenAfter(presets')
    /\ detached' = Detach({items[i].id : i \in 1..Len(items)}
                            \cap DOMAIN presets)
    /\ UNCHANGED moreVars
    /\ UNCHANGED <<selVars, codecVars, clock, preset_ids, presets_data,
                   comparison, metrics, cmp_pc, cmp_i>>

\* A second passes.
Tick ==
    /\ clock < MaxClock
    /\ clock' = clock + 1
    /\ UNCHANGED moreVars
    /\ UNCHANGED <<selVars, codecVars, presets, call, compareVars>>

\* compare_presets(preset_ids) as one step
ComparePresets ==
    /\ cmp_pc = "call"
    /\ presets_data' = ResolveFrom(<<>>, presets, preset_ids)
    /\ comparison' = Compare(presets, preset_ids)
    /\ metrics' = IF presets_data' = <<>> THEN metrics
                  ELSE MetricsFrom(InitMetrics, presets, presets_data')
    /\ seen' = {DOMAIN presets}
    /\ cmp_pc' = "done"
    /\ UNCHANGED moreVars
    /\ UNCHANGED <<selVars, codecVars, storeVars, preset_ids, detached, cmp_i>>

(***************************************************************************)
(* compare_presets in steps, for a dict that other threads use meanwhile:  *)
(* one step per pass of each loop.                                         *)
(***************************************************************************)
\* The preset object the k-th entry of presets_data refers to.
Object(id) == IF id \in DOMAIN detached THEN detached[id] ELSE presets[id]

CmpResolve ==
    /\ cmp_pc = "resolve"
    /\ cmp_i <= Len(preset_ids)
    /\ presets_data' = ResolveStep(presets_data, presets, preset_ids[cmp_i])
    /\ cmp_i' = cmp_i + 1
    /\ UNCHANGED moreVars
    /\ UNCHANGED <<selVars, codecVars, storeVars, preset_ids, detached,
                   comparison, metrics, cmp_pc, seen>>

\* if not presets_data: return ...; comparison = {...}
CmpResolved ==
    /\ cmp_pc = "resolve"
    /\ cmp_i > Len(preset_ids)
    /\ IF presets_data = <<>>
       THEN comparison' = ErrorResult /\ cmp_pc' = "done"
       ELSE comparison' = NewComparison /\ cmp_pc' = "build"
    /\ cmp_i' = 1
    /\ UNCHANGED moreVars
    /\ UNCHANGED <<selVars, codecVars, storeVars, preset_ids, presets_data,
                   detached, metrics, seen>>

CmpBuild ==
    /\ cmp_pc = "build"
    /\ cmp_i <= Len(presets_data)
    /\ comparison' = BuildStep(comparison, presets_data[cmp_i],
                               Object(presets_data[cmp_i]))
    /\ cmp_i' = cmp_i + 1
    /\ UNCHANGED moreVars
    /\ UNCHANGED <<selVars, codecVars, storeVars, preset_ids, presets_data,
                   detached, metrics, cmp_pc, seen>>

\* The call of _calculate_metrics_comparison.
CmpBuilt ==
    /\ cmp_pc = "build"
    /\ cmp_i > Len(presets_data)
    /\ metrics' = InitMetrics
    /\ cmp_pc' = "metrics"
    /\ cmp_i' = 1
    /\ UNCHANGED moreVars
    /\ UNCHANGED <<selVars, codecVars, storeVars, preset_ids, presets_data,
                   detached, comparison, seen>>

CmpMetrics ==
    /\ cmp_pc = "metrics"
    /\ cmp_i <= Len(presets_data)
    /\ metrics' = MetricsStep(metrics, presets_data[cmp_i],
                              Object(presets_data[cmp_i]))
    /\ cmp_i' = cmp_i + 1
    /\ UNCHANGED moreVars
    /\ UNCHANGED <<selVars, codecVars, storeVars, preset_ids, presets_data,
                   detached, comparison, cmp_pc, seen>>

CmpReturn ==
    /\ cmp_pc = "metrics"
    /\ cmp_i > Len(presets_data)
    /\ comparison' = [comparison EXCEPT !.metrics_comparison = metrics.metrics]
    /\ cmp_pc' = "done"
    /\ UNCHANGED moreVars
    /\ UNCHANGED <<selVars, codecVars, storeVars, preset_ids, presets_data,
                   detached, metrics, cmp_i, seen>>

\* No compare_presets call is under way.
CompareIdle ==
    /\ preset_ids = <<>>
    /\ presets_data = <<>>
    /\ detached = <<>>
    /\ comparison = NewComparison
    /\ metrics = InitMetrics
    /\ cmp_pc = "idle"
    /\ cmp_i = 1
    /\ seen = {}

\* The manager after construction.
StoreNew ==
    /\ presets = <<>>
    /\ clock = 0
    /\ call = Call("new", NoId, None, TRUE, 0)

StoreIdle == StoreNew /\ CompareIdle

(***************************************************************************)
(* add_preset as the request threads run it: the module-level manager is   *)
(* shared by the threads of the server and takes no lock, so the call's    *)
(* statements interleave with the calls of other threads.                  *)
(***************************************************************************)
MaxThreads == 2

Threads == 1..MaxThreads

ThreadAt(where, args, id) == [pc |-> where, args |-> args, id |-> id]

\* preset_id = f"preset_{len(self.presets) + 1}_{int(now.timestamp())}"
AddName(t) ==
    /\ adding[t].pc = "start"
    /\ adding' = [adding EXCEPT ![t] =
                     ThreadAt("named", adding[t].args,
                              GeneratedId(presets, clock))]
    /\ UNCHANGED <<selVars, codecVars, storeVars, compareVars, raceRest>>

\* preset = Preset(...); self.presets[preset_id] = preset
AddStore(t) ==
    /\ adding[t].pc = "named"
    /\ presets' = DictPut(presets, adding[t].id,
                          NewPreset(adding[t].args.name,
                                    adding[t].args.parameters,
                                    adding[t].args.optimization_metrics,
                                    clock))
    /\ call' = Call("add", adding[t].id, None, TRUE, 0)
    /\ seen' = SeenAfter(presets')
    /\ detached' = Detach(IF adding[t].id \in DOMAIN presets
                          THEN {adding[t].id} ELSE {})
    /\ adding' = [adding EXCEPT ![t] =
                     ThreadAt("done", adding[t].args, adding[t].id)]
    /\ UNCHANGED <<selVars, codecVars, clock, preset_ids, presets_data,
                   comparison, metrics, cmp_pc, cmp_i, raceRest>>

RaceIdle == adding = [t \in Threads |-> ThreadAt("idle", <<>>, NoId)]

(***************************************************************************)
(* BacktestReport and parse_backtest_report.  A document is the list of    *)
(* its table rows, a row the list of the texts of its cells.  A float is   *)
(* the number of its units as before; a quotient of two numbers is kept as *)
(* the fraction in lowest terms.                                           *)
(***************************************************************************)
Unit == Pow10(FloatDecimals + 1)

RECURSIVE Gcd(_, _)
Gcd(a, b) == IF b = 0 THEN a ELSE Gcd(b, a % b)

Abs(a) == IF a < 0 THEN -a ELSE a

\* a / b for b # 0
Ratio(a, b) ==
    LET g == Gcd(Abs(a), Abs(b))
        sg == IF b < 0 THEN -1 ELSE 1
    IN [num |-> sg * (a \div g), den |-> sg * (b \div g)]

\* x * k for a quotient x
Times(x, k) == Ratio(x.num * k, x.den)

\* a / b: the quotient, or None when the division raises ZeroDivisionError
TrueDiv(a, b) == IF b = 0 THEN None ELSE Some(Ratio(a, b))

\* x * k for the outcome x of a division
Scaled(x, k) == IF x = None THEN None ELSE Some(Times(x[1], k))

\* int(x) of a float: the fraction is cut off
IntTrunc(u) == IF u >= 0 THEN u \div Unit ELSE -((-u) \div Unit)

InitialDeposit ==
    <<"I", "n", "i", "t", "i", "a", "l", " ", "d", "e", "p", "o", "s", "i",
      "t">>

TotalNetProfit ==
    <<"T", "o", "t", "a", "l", " ", "n", "e", "t", " ", "p", "r", "o", "f",
      "i", "t">>

GrossProfit ==
    <<"G", "r", "o", "s", "s", " ", "p", "r", "o", "f", "i", "t">>

GrossLoss ==
    <<"G", "r", "o", "s", "s", " ", "l", "o", "s", "s">>

ProfitFactorLabel ==
    <<"P", "r", "o", "f", "i", "t", " ", "f", "a", "c", "t", "o", "r">>

ExpectedPayoffLabel ==
    <<"E", "x", "p", "e", "c", "t", "e", "d", " ", "p", "a", "y", "o", "f",
      "f">>

AbsoluteDrawdown ==
    <<"A", "b", "s", "o", "l", "u", "t", "e", " ", "d", "r", "a", "w", "d",
      "o", "w", "n">>

MaximalDrawdown ==
    <<"M", "a", "x", "i", "m", "a", "l", " ", "d", "r", "a", "w", "d", "o",
      "w", "n">>

RelativeDrawdown ==
    <<"R", "e", "l", "a", "t", "i", "v", "e", " ", "d", "r", "a", "w", "d",
      "o", "w", "n">>

TotalTrades ==
    <<"T", "o", "t", "a", "l", " ", "t", "r", "a", "d", "e", "s">>

ShortPositions ==
    <<"S", "h", "o", "r", "t", " ", "p", "o", "s", "i", "t", "i", "o", "n",
      "s", " ", "(", "w", "o", "n", " ", "%", ")">>

LongPositions ==
    <<"L", "o", "n", "g", " ", "p", "o", "s", "i", "t", "i", "o", "n", "s",
      " ", "(", "w", "o", "n", " ", "%", ")">>

ProfitTrades ==
    <<"P", "r", "o", "f", "i", "t", " ", "t", "r", "a", "d", "e", "s", " ",
      "(", "%", " ", "o", "f", " ", "t", "o", "t", "a", "l", ")">>

LossTrades ==
    <<"L", "o", "s", "s", " ", "t", "r", "a", "d", "e", "s", " ", "(", "%",
      " ", "o", "f", " ", "t", "o", "t", "a", "l", ")">>

ZeroText == <<"0">>

\* re.sub(r'[^\d.\-]', '', text.replace(',', ''))
Cleaned(text) ==
    SelectSeq(text, LAMBDA c : c \in DigitChars \cup {".", "-"})

\* extract_number(text)
ExtractNumber(text) ==
    IF text = <<>> THEN 0
    ELSE IF IsFloatText(Cleaned(text)) THEN TextToFloat(Cleaned(text))
    ELSE 0

RECURSIVE Words(_)
\* text.split()
Words(text) ==
    LET s == LStrip(text)
        ws == {i \in 1..Len(s) : s[i] \in Whitespace}
        e == IF ws = {} THEN Len(s) + 1
             ELSE CHOOSE i \in ws : \A j \in ws : i <= j
    IN IF s = <<>> THEN <<>>
       ELSE <<SubSeq(s, 1, e - 1)>> \o Words(SubSeq(s, e, Len(s)))

RECURSIVE MetricsOfRows(_)
\* The dict `metrics`: for every row of two or more cells, the stripped text
\* of the second cell under the stripped text of the first; a later row
\* replaces an earlier one of the same key.
MetricsOfRows(rs) ==
    IF rs = <<>> THEN <<>>
    ELSE LET before == MetricsOfRows(SubSeq(rs, 1, Len(rs) - 1))
             cols == rs[Len(rs)]
         IN IF Len(cols) >= 2
            THEN DictPut(before, Strip(cols[1]), Strip(cols[2]))
            ELSE before

\* metrics.get(label, '0')
TextGet(m, label) == IF label \in DOMAIN m THEN m[label] ELSE ZeroText

\* relative_drawdown_str.split('(')[0] if '(' in it, else the text itself
BeforeParen(text) ==
    IF Find(text, <<"(">>) # 0 THEN Split(text, <<"(">>)[1] ELSE text

SplitLabels == {ShortPositions, LongPositions, ProfitTrades, LossTrades}

\* metrics.get(label, '0').split()[0] raises IndexError
IndexErrorAt(m, label) == Words(TextGet(m, label)) = <<>>

\* int(extract_number(metrics.get(label, '0').split()[0]))
FirstWordCount(m, label) ==
    IntTrunc(ExtractNumber(Words(TextGet(m, label))[1]))

\* One trade of the trades table, from a row of seven or more cells.
TradeOf(cols) ==
    [ticket |-> Strip(cols[1]), time |-> Strip(cols[2]),
     type |-> Strip(cols[3]), size |-> ExtractNumber(cols[4]),
     symbol |-> Strip(cols[5]), price |-> ExtractNumber(cols[6]),
     profit |-> ExtractNumber(cols[7])]

\* The trades: the rows of the trades table after its first, those of seven
\* or more cells.  (The document has one table, which is then the last.)
TradesOf(rs) ==
    LET long == SelectSeq(Tail(rs), LAMBDA cols : Len(cols) >= 7)
    IN IF rs = <<>> THEN <<>> ELSE [k \in 1..Len(long) |-> TradeOf(long[k])]

\* BacktestReport(...) as parse_backtest_report builds it, for a document
\* on which no statement raises.
ReportOf(rs) ==
    LET m == MetricsOfRows(rs)
        net == ExtractNumber(TextGet(m, TotalNetProfit))
        maxdd == ExtractNumber(TextGet(m, MaximalDrawdown))
    IN [initial_deposit |-> ExtractNumber(TextGet(m, InitialDeposit)),
        total_net_profit |-> net,
        gross_profit |-> ExtractNumber(TextGet(m, GrossProfit)),
        gross_loss |-> ExtractNumber(TextGet(m, GrossLoss)),
        profit_factor |-> ExtractNumber(TextGet(m, ProfitFactorLabel)),
        expected_payoff |-> ExtractNumber(TextGet(m, ExpectedPayoffLabel)),
        absolute_drawdown |-> ExtractNumber(TextGet(m, AbsoluteDrawdown)),
        maximal_drawdown |-> maxdd,
        relative_drawdown |->
            ExtractNumber(BeforeParen(TextGet(m, RelativeDrawdown))),
        total_trades |-> IntTrunc(ExtractNumber(TextGet(m, TotalTrades))),
        short_positions |-> FirstWordCount(m, ShortPositions),
        long_positions |-> FirstWordCount(m, LongPositions),
        profit_trades |-> FirstWordCount(m, ProfitTrades),
        loss_trades |-> FirstWordCount(m, LossTrades),
        sharpe_ratio |-> None,
        recovery_factor |->
            IF maxdd > 0 THEN Some(Ratio(net, maxdd)) ELSE None,
        trades |-> TradesOf(rs)]

\* An exception leaves parse_backtest_report (the except clause raises it
\* again).
ParseRaises(rs) ==
    \E label \in SplitLabels : IndexErrorAt(MetricsOfRows(rs), label)

\* Variant: no test of total_trades before the division.
WinRateUnguarded(r) ==
    Scaled(TrueDiv(r.profit_trades, r.total_trades), 100)

\* (profit_trades / total_trades * 100) if total_trades > 0 else 0, or None
\* when the division raises ZeroDivisionError
WinRate(r) ==
    IF r.total_trades > 0
    THEN Scaled(TrueDiv(r.profit_trades, r.total_trades), 100)
    ELSE Some(Ratio(0, 1))

\* BacktestReport.to_dict(), for a report whose division does not raise
ToDictOf(r) ==
    [initial_deposit |-> r.initial_deposit,
     total_net_profit |-> r.total_net_profit,
     gross_profit |-> r.gross_profit,
     gross_loss |-> r.gross_loss,
     profit_factor |-> r.profit_factor,
     expected_payoff |-> r.expected_payoff,
     absolute_drawdown |-> r.absolute_drawdown,
     maximal_drawdown |-> r.maximal_drawdown,
     relative_drawdown |-> r.relative_drawdown,
     total_trades |-> r.total_trades,
     short_positions |-> r.short_positions,
     long_positions |-> r.long_positions,
     profit_trades |-> r.profit_trades,
     loss_trades |-> r.loss_trades,
     sharpe_ratio |-> r.sharpe_ratio,
     recovery_factor |-> r.recovery_factor,
     win_rate |-> WinRate(r)[1],
     trades_count |-> Len(r.trades)]

\* parse_backtest_report(file_content)
ParseBacktestReport ==
    /\ rpc = "call"
    /\ IF ParseRaises(rows)
       THEN /\ rpc' = "raised"
            /\ bt_report' = bt_report
       ELSE /\ rpc' = "parsed"
            /\ bt_report' = Some(ReportOf(rows))
    /\ UNCHANGED <<rows, as_dict>>
    /\ UNCHANGED <<selVars, codecVars, storeVars, compareVars, reportRest>>

\* report.to_dict()
ToDict ==
    /\ rpc \in {"parsed", "built"}
    /\ IF WinRate(bt_report[1]) = None
       THEN /\ rpc' = "division"
            /\ as_dict' = as_dict
       ELSE /\ rpc' = "dict"
            /\ as_dict' = Some(ToDictOf(bt_report[1]))
    /\ UNCHANGED <<rows, bt_report>>
    /\ UNCHANGED <<selVars, codecVars, storeVars, compareVars, reportRest>>

ReportIdle ==
    /\ rows = <<>>
    /\ bt_report = None
    /\ as_dict = None
    /\ rpc = "idle"

(***************************************************************************)
(* parse_optimization_report.  A document is what the two libraries make   *)
(* of its text: whether it is well-formed XML and the Row elements found   *)
(* in it, and the first table found in it as HTML (its rows, each the      *)
(* list of the texts of its cells), if there is one.  A Row element gives  *)
(* its Pass attribute (None or the text), its Parameter children (name     *)
(* attribute and text, each None or the text) and, for each metric child,  *)
(* Missing or the element's text (None for an element without text).       *)
(***************************************************************************)
NoneVal == [t |-> "NoneType", v |-> 0, s |-> <<>>]

\* int(text) and float(text) accept white space around the number.
IsInt(text) == IsIntText(Strip(text))

IsFloat(text) == IsFloatText(Strip(text))

ToInt(text) == TextToInt(Strip(text))

ToFloat(text) == TextToFloat(Strip(text))

\* float(value) if '.' in value else int(value); the raw text when the
\* conversion raises ValueError
Inferred(value) ==
    IF Find(value, <<".">>) # 0
    THEN IF IsFloat(value) THEN PyVal("float", ToFloat(value))
         ELSE StrVal(value)
    ELSE IF IsInt(value) THEN PyVal("int", ToInt(value))
         ELSE StrVal(value)

\* The value of a Parameter element: for an element without text the test
\* '.' in None raises TypeError, which leaves None.
ParamValue(text) == IF text = None THEN NoneVal ELSE Inferred(text[1])

RECURSIVE XmlParameters(_)
\* The dict `parameters` of a Row: param.get('name', '') -> value
XmlParameters(ps) ==
    IF ps = <<>> THEN <<>>
    ELSE LET p == ps[Len(ps)]
         IN DictPut(XmlParameters(SubSeq(ps, 1, Len(ps) - 1)),
                    IF p.name = None THEN <<>> ELSE p.name[1],
                    ParamValue(p.text))

\* `text or 0`: an element without text, or with empty text, gives 0
OrZero(text) == IF text = None \/ text[1] = <<>> THEN ZeroText ELSE text[1]

OptionalChildren ==
    <<"ProfitFactor", "ExpectedPayoff", "Drawdown", "Sharpe", "Recovery">>

\* The exception float(child.text) raises for an optional child, "" if none
OptionalError(child) ==
    IF child = Missing THEN ""
    ELSE IF child[1] = None THEN "TypeError"
    ELSE IF IsFloat(child[1][1]) THEN ""
    ELSE "ValueError"

\* The exception the loop body raises for a Row, "" if none, by the order
\* of its statements.
RowError(row) ==
    IF row.Pass # None /\ ~IsInt(row.Pass[1]) THEN "ValueError"
    ELSE IF row.Result = Missing THEN "AttributeError"
    ELSE IF ~IsFloat(OrZero(row.Result[1])) THEN "ValueError"
    ELSE IF row.Trades = Missing THEN "AttributeError"
    ELSE IF ~IsInt(OrZero(row.Trades[1])) THEN "ValueError"
    ELSE LET bad == {k \in 1..Len(OptionalChildren) :
                       OptionalError(row[OptionalChildren[k]]) # ""}
         IN IF bad = {} THEN ""
            ELSE OptionalError(
                   row[OptionalChildren[CHOOSE k \in bad :
                                          \A j \in bad : k <= j]])

\* float(child.text) if child is not None else None
OptionalFloat(child) ==
    IF child = Missing THEN None ELSE Some(ToFloat(child[1][1]))

\* OptimizationResult(...) of a Row whose statements do not raise
RowResult(row) ==
    [pass_number |-> IF row.Pass = None THEN 0 ELSE ToInt(row.Pass[1]),
     parameters |-> XmlParameters(row.params),
     profit |-> ToFloat(OrZero(row.Result[1])),
     total_trades |-> ToInt(OrZero(row.Trades[1])),
     profit_factor |-> OptionalFloat(row.ProfitFactor),
     expected_payoff |-> OptionalFloat(row.ExpectedPayoff),
     drawdown |-> OptionalFloat(row.Drawdown),
     drawdown_percent |-> None,
     sharpe_ratio |-> OptionalFloat(row.Sharpe),
     recovery_factor |-> OptionalFloat(row.Recovery),
     win_rate |-> None]

\* _parse_optimization_xml(content): the exception that leaves it, or ""
XmlError(doc) ==
    IF ~doc.wellformed THEN "ParseError"
    ELSE LET bad == {k \in 1..Len(doc.xrows) : RowError(doc.xrows[k]) # ""}
         IN IF bad = {} THEN ""
            ELSE RowError(doc.xrows[CHOOSE k \in bad : \A j \in bad : k <= j])

XmlResults(doc) == [k \in 1..Len(doc.xrows) |-> RowResult(doc.xrows[k])]

\* value.replace(a, '').replace(b, '')
Without(value, chars) == SelectSeq(value, LAMBDA c : c \notin chars)

\* word in header.lower()
Contains(header, word) == Find(Lower(header), word) # 0

ProfitWord == <<"p", "r", "o", "f", "i", "t">>

FactorWord == <<"f", "a", "c", "t", "o", "r">>

TradesWord == <<"t", "r", "a", "d", "e", "s">>

ProfitFactorWords == ProfitWord \o <<" ">> \o FactorWord

PayoffWord == <<"p", "a", "y", "o", "f", "f">>

DrawdownWord == <<"d", "r", "a", "w", "d", "o", "w", "n">>

\* Variant: the first test without `and 'factor' not in header.lower()`
ColumnClassProfitFirst(header) ==
    IF Contains(header, ProfitWord) THEN "profit"
    ELSE IF Contains(header, TradesWord) THEN "total_trades"
    ELSE IF Contains(header, ProfitFactorWords) THEN "profit_factor"
    ELSE IF Contains(header, PayoffWord) THEN "expected_payoff"
    ELSE IF Contains(header, DrawdownWord) THEN "drawdown"
    ELSE "parameter"

\* The if/elif chain on the header of a column
ColumnClass(header) ==
    IF Contains(header, ProfitWord) /\ ~Contains(header, FactorWord)
    THEN "profit"
    ELSE IF Contains(header, TradesWord) THEN "total_trades"
    ELSE IF Contains(header, ProfitFactorWords) THEN "profit_factor"
    ELSE IF Contains(header, PayoffWord) THEN "expected_payoff"
    ELSE IF Contains(header, DrawdownWord) THEN "drawdown"
    ELSE "parameter"

\* The locals of a table row before the loop over the headers
RowLocals(pass_num) ==
    [pass_number |-> pass_num, parameters |-> <<>>, profit |-> 0,
     total_trades |-> 0, profit_factor |-> None, expected_payoff |-> None,
     drawdown |-> None, drawdown_percent |-> None, sharpe_ratio |-> None,
     recovery_factor |-> None, win_rate |-> None]

\* The body of the loop over the headers for one column
ColumnStep(acc, header, value) ==
    LET class == ColumnClass(header)
        money == Without(value, {",", "$"})
        percent == Without(value, {"%", ","})
    IN CASE class = "profit" ->
              IF IsFloat(money) THEN [acc EXCEPT !.profit = ToFloat(money)]
              ELSE acc
         [] class = "total_trades" ->
              IF IsInt(value) THEN [acc EXCEPT !.total_trades = ToInt(value)]
              ELSE acc
         [] class = "profit_factor" ->
              IF IsFloat(value)
              THEN [acc EXCEPT !.profit_factor = Some(ToFloat(value))]
              ELSE acc
         [] class = "expected_payoff" ->
              IF IsFloat(money)
              THEN [acc EXCEPT !.expected_payoff = Some(ToFloat(money))]
              ELSE acc
         [] class = "drawdown" ->
              IF IsFloat(percent)
              THEN [acc EXCEPT !.drawdown = Some(ToFloat(percent))]
              ELSE acc
         [] OTHER ->
              [acc EXCEPT !.parameters = DictPut(@, header, Inferred(value))]

RECURSIVE ColumnsFrom(_, _, _, _)
\* for j, header in enumerate(headers), from column j on
ColumnsFrom(acc, headers, values, j) ==
    IF j > Len(headers) THEN acc
    ELSE IF j > Len(values) THEN ColumnsFrom(acc, headers, values, j + 1)
    ELSE ColumnsFrom(ColumnStep(acc, headers[j], values[j]), headers, values,
                     j + 1)

Stripped(cells) == [j \in 1..Len(cells) |-> Strip(cells[j])]

\* int(values[0]) if values[0].isdigit() else i
PassNum(values, i) ==
    IF AllDigits(values[1]) THEN DigitsToNat(values[1]) ELSE i

RECURSIVE HtmlFrom(_, _, _)
\* for i, row in enumerate(rows), from the row of index i on (the row of
\* index 0 gives the headers)
HtmlFrom(headers, trs, i) ==
    IF i + 1 > Len(trs) THEN <<>>
    ELSE LET values == Stripped(trs[i + 1])
         IN (IF Len(values) < 2 THEN <<>>
             ELSE <<ColumnsFrom(RowLocals(PassNum(values, i)), headers,
                                values, 1)>>)
              \o HtmlFrom(headers, trs, i + 1)

\* _parse_optimization_html(content): the exception that leaves it, or ""
HtmlError(doc) == IF doc.table = None THEN "ValueError" ELSE ""

HtmlResults(doc) ==
    LET trs == doc.table[1]
    IN IF trs = <<>> THEN <<>> ELSE HtmlFrom(Stripped(trs[1]), trs, 1)

\* parse_optimization_report(file_content, file_type)
ParseOptimizationReport ==
    /\ opc = "call"
    /\ LET error == CASE file_type = "xml" -> XmlError(document)
                      [] file_type = "html" -> HtmlError(document)
                      [] OTHER -> "ValueError"
       IN IF error # ""
          THEN /\ opc' = error
               /\ results' = results
          ELSE /\ opc' = "returned"
               /\ results' = IF file_type = "xml" THEN XmlResults(document)
                             ELSE HtmlResults(document)
    /\ UNCHANGED <<file_type, document>>
    /\ UNCHANGED <<selVars, codecVars, storeVars, compareVars, optRest>>

NoDocument == [wellformed |-> FALSE, xrows |-> <<>>, table |-> None]

OptIdle ==
    /\ file_type = ""
    /\ document = NoDocument
    /\ results = <<>>
    /\ opc = "idle"

(***************************************************************************)
(* StrategyMetrics and PortfolioAnalysisRequest: the checks made when an   *)
(* object is constructed.  The numbers are floats, in units as before.     *)
(***************************************************************************)
MAX_STRATEGIES == 10

MIN_STRATEGIES == 1

MIN_CORRELATION == -Unit

MAX_CORRELATION == Unit

\* Variant: the bounds themselves refused.
MetricsRaisesStrict(m) ==
    \/ m.name = <<>>
    \/ m.equity <= 0
    \/ m.drawdown >= 0
    \/ ~(MIN_CORRELATION < m.correlation /\ m.correlation < MAX_CORRELATION)
    \/ m.recovery <= 0

\* StrategyMetrics.__post_init__ raises ValueError
MetricsRaises(m) ==
    \/ m.name = <<>>
    \/ m.equity < 0
    \/ m.drawdown > 0
    \/ ~(MIN_CORRELATION <= m.correlation /\ m.correlation <= MAX_CORRELATION)
    \/ m.recovery < 0

\* PortfolioAnalysisRequest.__post_init__ raises ValueError
RequestRaises(list) ==
    \/ Len(list) < MIN_STRATEGIES
    \/ Len(list) > MAX_STRATEGIES

\* StrategyMetrics(name, equity, drawdown, correlation, recovery, profit)
NewStrategyMetrics ==
    /\ vpc = "call"
    /\ vpc' = IF MetricsRaises(metrics_args) THEN "metrics_error"
              ELSE "metrics"
    /\ UNCHANGED <<metrics_args, count, strategies>>
    /\ UNCHANGED <<selVars, codecVars, storeVars, compareVars, portRest>>

\* PortfolioAnalysisRequest(strategies), the list holding the object made
\* `count` times
NewPortfolioAnalysisRequest ==
    /\ vpc = "metrics"
    /\ LET list == [k \in 1..count |-> metrics_args]
       IN IF RequestRaises(list)
          THEN /\ vpc' = "request_error"
               /\ strategies' = strategies
          ELSE /\ vpc' = "request"
               /\ strategies' = list
    /\ UNCHANGED <<metrics_args, count>>
    /\ UNCHANGED <<selVars, codecVars, storeVars, compareVars, portRest>>

NoMetricsArgs ==
    [name |-> <<>>, equity |-> 0, drawdown |-> 0, correlation |-> 0,
     recovery |-> 0, profit |-> 0]

PortfolioIdle ==
    /\ metrics_args = NoMetricsArgs
    /\ count = 0
    /\ strategies = <<>>
    /\ vpc = "idle"

(***************************************************************************)
(* export_presets and import_presets.  The exported text is kept as the    *)
(* JSON document it spells: a JSON value is true, false, null, a number    *)
(* written without or with a fraction, or a string; an object is the       *)
(* mapping of its keys.  `target` is the dict of a second manager, the one *)
(* that imports.                                                           *)
(***************************************************************************)
Json(kind, v, s) == [j |-> kind, v |-> v, s |-> s]

JStr(text) == [jstr |-> text]

\* Variant: a float written without its fraction, as an int is.
JsonOfValNoFraction(x) ==
    CASE x.t = "bool" -> Json(IF x.v = 1 THEN "true" ELSE "false", 0, <<>>)
      [] x.t = "int" -> Json("int", x.v, <<>>)
      [] x.t = "float" -> Json("int", x.v, <<>>)
      [] x.t = "str" -> Json("string", 0, x.s)
      [] OTHER -> Json("null", 0, <<>>)

\* json.dumps of a value of a dict: True/False before the other ints, a
\* float by its repr, which has a fraction or an exponent
JsonOfVal(x) ==
    CASE x.t = "bool" -> Json(IF x.v = 1 THEN "true" ELSE "false", 0, <<>>)
      [] x.t = "int" -> Json("int", x.v, <<>>)
      [] x.t = "float" -> Json("float", x.v, <<>>)
      [] x.t = "str" -> Json("string", 0, x.s)
      [] OTHER -> Json("null", 0, <<>>)

\* json.loads of a value
ValOfJson(j) ==
    CASE j.j = "true" -> PyVal("bool", 1)
      [] j.j = "false" -> PyVal("bool", 0)
      [] j.j = "int" -> PyVal("int", j.v)
      [] j.j = "float" -> PyVal("float", j.v)
      [] j.j = "string" -> StrVal(j.s)
      [] OTHER -> NoneVal

\* A metric of a report: None or a number
JsonOfMetric(m) ==
    IF m = None THEN Json("null", 0, <<>>) ELSE Json("int", m[1], <<>>)

MetricOfJson(j) == IF j.j = "null" THEN None ELSE Some(j.v)

\* A backtest report as a JSON object and back
JsonOfReport(r) ==
    [k \in DOMAIN r |->
       IF k = "other" \/ r[k] = Missing THEN r[k]
       ELSE Present(JsonOfMetric(r[k][1]))]

ReportOfJson(o) ==
    [k \in DOMAIN o |->
       IF k = "other" \/ o[k] = Missing THEN o[k]
       ELSE Present(MetricOfJson(o[k][1]))]

\* p.to_dict() in the text: asdict(self), the fields of the dataclass with
\* the id
JsonOfPreset(id, p) ==
    [id |-> JStr(id),
     name |-> JStr(p.name),
     parameters |-> [k \in DOMAIN p.parameters |-> JsonOfVal(p.parameters[k])],
     optimization_metrics |->
       [k \in DOMAIN p.optimization_metrics |->
          Json("int", p.optimization_metrics[k], <<>>)],
     backtest_report |->
       IF p.backtest_report = None THEN None
       ELSE Some(JsonOfReport(p.backtest_report[1])),
     created_at |-> JStr(p.created_at),
     notes |-> JStr(p.notes)]

\* Preset(**preset_data)
PresetOfJson(o) ==
    [id |-> o.id.jstr,
     preset |->
       [name |-> o.name.jstr,
        parameters |->
          [k \in DOMAIN o.parameters |-> ValOfJson(o.parameters[k])],
        optimization_metrics |->
          [k \in DOMAIN o.optimization_metrics |-> o.optimization_metrics[k].v],
        backtest_report |->
          IF o.backtest_report = None THEN None
          ELSE Some(ReportOfJson(o.backtest_report[1])),
        created_at |-> o.created_at.jstr,
        notes |-> o.notes.jstr]]

RECURSIVE ValuesOf(_, _)
\* self.presets.values() as a list, for the keys `ids` still to come
ValuesOf(store, ids) ==
    IF ids = {} THEN <<>>
    ELSE LET id == CHOOSE x \in ids :
                     \A y \in ids : x.n < y.n \/ (x.n = y.n /\ x.t <= y.t)
         IN <<JsonOfPreset(id, store[id])>> \o ValuesOf(store, ids \ {id})

\* json.dumps({"exported_at": ..., "presets": [...]}, indent=2)
Dumps(store, t) ==
    [exported_at |-> JStr(t), presets |-> ValuesOf(store, DOMAIN store)]

\* Variant: setdefault, a preset of an id in the dict stays
LoadedKeepingOld(store, doc) ==
    LET new == PutAll(<<>>, [k \in 1..Len(doc.presets) |->
                               PresetOfJson(doc.presets[k])])
    IN [id \in DOMAIN store \cup DOMAIN new |->
          IF id \in DOMAIN store THEN store[id] ELSE new[id]]

\* The dict after the loop of import_presets over data.get("presets", [])
Loaded(store, doc) ==
    PutAll(store, [k \in 1..Len(doc.presets) |-> PresetOfJson(doc.presets[k])])

\* export_presets()
ExportPresets ==
    /\ xpc = "call"
    /\ exported' = Some(Dumps(presets, clock))
    /\ xpc' = "exported"
    /\ UNCHANGED target
    /\ UNCHANGED <<selVars, codecVars, storeVars, compareVars, xferRest>>

\* import_presets(json_data) of the second manager
ImportExported ==
    /\ xpc = "exported"
    /\ target' = Loaded(target, exported[1])
    /\ xpc' = "imported"
    /\ UNCHANGED exported
    /\ UNCHANGED <<selVars, codecVars, storeVars, compareVars, xferRest>>

TransferIdle ==
    /\ exported = None
    /\ target = <<>>
    /\ xpc = "idle"

MoreIdle ==
    RaceIdle /\ ReportIdle /\ OptIdle /\ PortfolioIdle /\ TransferIdle

(***************************************************************************)
(* Inputs of the selection engine.                                         *)
(***************************************************************************)
OptVals == {None, Some(0), Some(2)}

PlainParams == [a |-> PyVal("int", 1)]

\* Every combination of the fields the filter reads.
FullRecords ==
    [parameters : {PlainParams}, profit : {1, 2}, total_trades : {5, 10},
     profit_factor : OptVals, drawdown_percent : OptVals,
     sharpe_ratio : OptVals, recovery_factor : OptVals]

BaseRecord ==
    [parameters |-> PlainParams, profit |-> 2, total_trades |-> 10,
     profit_factor |-> None, drawdown_percent |-> None,
     sharpe_ratio |-> None, recovery_factor |-> None]

\* Records for the calls with several records: three profit levels (ties
\* arise from repeating a record) and one record the default min_trades drops.
PoolRecords ==
    {BaseRecord, [BaseRecord EXCEPT !.profit = 1],
     [BaseRecord EXCEPT !.profit = 3],
     [BaseRecord EXCEPT !.total_trades = 5]}

SeqsUpTo(S, n) == UNION {[1..k -> S] : k \in 0..n}

SelectRecordSeqs ==
    {<<r>> : r \in FullRecords} \cup SeqsUpTo(PoolRecords, MaxRecs)

\* One choice per option: <<>> leaves the option out of the mapping, <<v>>
\* supplies the value v.
CriteriaChoices ==
    [min_profit : {<<>>, <<Some(2)>>},
     min_profit_factor : {<<>>, <<Some(3)>>},
     min_trades : {<<>>, <<Some(5)>>},
     max_drawdown : {<<>>, <<Some(0)>>, <<Some(1)>>},
     min_sharpe : {<<>>, <<Some(1)>>},
     min_recovery : {<<>>, <<Some(1)>>},
     top_n : {<<>>} \cup {<<Some(n)>> : n \in 0..MaxTopN}]

CriteriaOf(ch) ==
    [given |-> TRUE,
     opts |-> [k \in {x \in CriteriaKeys : ch[x] # <<>>} |-> ch[k][1]]]

NoCriteria == [given |-> FALSE, opts |-> <<>>]

NoForward == [given |-> FALSE, items |-> <<>>]

InitLocals ==
    /\ default_criteria = DefaultCriteria
    /\ filtered = <<>>
    /\ top_results = <<>>
    /\ result = <<>>
    /\ reselected = <<>>
    /\ pc = "call"

\* The codec is not in use.
CodecIdle ==
    /\ parameters = <<>>
    /\ preset_name = <<>>
    /\ now = <<>>
    /\ lines = <<>>
    /\ content = <<>>
    /\ parsed = <<>>
    /\ cpc = "idle"

InitSelect ==
    /\ MoreIdle
    /\ CodecIdle
    /\ StoreIdle
    /\ optimization_results \in SelectRecordSeqs
    /\ forward_results = NoForward
    /\ criteria \in {NoCriteria} \cup {CriteriaOf(ch) : ch \in CriteriaChoices}
    /\ InitLocals

NextSelect == FindBestParameters

SpecSelect == InitSelect /\ [][NextSelect]_vars

\* Criteria for repeated calls: thresholds that drop records of the pool and
\* every top_n from -1 on (s[:-1] is s without its last element).
RepeatChoices ==
    [min_profit : {<<>>, <<Some(2)>>},
     min_profit_factor : {<<>>},
     min_trades : {<<>>, <<Some(5)>>},
     max_drawdown : {<<>>},
     min_sharpe : {<<>>},
     min_recovery : {<<>>},
     top_n : {<<>>} \cup {<<Some(n)>> : n \in (-1)..MaxTopN}]

InitRepeat ==
    /\ MoreIdle
    /\ CodecIdle
    /\ StoreIdle
    /\ optimization_results \in SeqsUpTo(PoolRecords, MaxRecs)
    /\ forward_results = NoForward
    /\ criteria \in {NoCriteria} \cup {CriteriaOf(ch) : ch \in RepeatChoices}
    /\ InitLocals

NextRepeat == FindBestParameters \/ SelectAgain

SpecRepeat == InitRepeat /\ [][NextRepeat]_vars

(***************************************************************************)
(* Inputs of the cross-validation.                                         *)
(***************************************************************************)
\* Parameter mappings that differ in the type of a value or in the key.
ParamSets ==
    {[a |-> PyVal("int", 1)], [a |-> PyVal("float", 1)],
     [a |-> PyVal("bool", 1)], [a |-> StrVal(<<"1">>)],
     [b |-> PyVal("int", 1)]}

\* One optimization record per mapping, and a less profitable one that the
\* sort moves behind the others.
ForwardOptRecords ==
    {[BaseRecord EXCEPT !.parameters = p] : p \in ParamSets}
    \cup {[BaseRecord EXCEPT !.profit = 1]}

ForwardRecords ==
    {[BaseRecord EXCEPT !.parameters = p, !.profit = x] :
        p \in ParamSets, x \in {0, 1}}

InitForward ==
    /\ MoreIdle
    /\ CodecIdle
    /\ StoreIdle
    /\ optimization_results \in SeqsUpTo(ForwardOptRecords, MaxFwdOpt)
    /\ forward_results \in
         {NoForward} \cup
         {[given |-> TRUE, items |-> f] : f \in SeqsUpTo(ForwardRecords, MaxFwd)}
    /\ criteria = NoCriteria
    /\ InitLocals

NextForward == FindBestParameters

SpecForward == InitForward /\ [][NextForward]_vars

(***************************************************************************)
(* Inputs of the codec.                                                    *)
(***************************************************************************)
NameChars == {"a", " ", "=", ";", "\n"}

StrChars == {"a", " ", "|", "\n"}

PresetChars == {"n", "=", "\n"}

\* Floats in units of 10^-(FloatDecimals+1): 0.0, 0.1, 1.5e-8, -4e-9, -1.5
FloatVals == {0, 100000000, 15, -4, -1500000000}

CodecValues ==
    {PyVal("bool", b) : b \in {0, 1}}
    \cup {PyVal("int", n) : n \in {-3, 0, 12}}
    \cup {PyVal("float", u) : u \in FloatVals}
    \cup {StrVal(t) : t \in SeqsUpTo(StrChars, MaxStrLen)}

Item(n, x) == [name |-> n, value |-> x]

\* Mappings with one entry: every name with every value.
SingleMappings ==
    {<<Item(n, x)>> : n \in SeqsUpTo(NameChars, MaxNameLen), x \in CodecValues}

PlainItems ==
    {Item(n, x) :
        n \in {<<"a">>, <<"b">>, <<"c">>},
        x \in {PyVal("bool", 1), PyVal("int", 12), PyVal("float", 100000000),
               StrVal(<<"a">>)}}

\* Mappings with several entries under distinct plain names.
PlainMappings ==
    {m \in SeqsUpTo(PlainItems, MaxParams) :
        \A i, j \in 1..Len(m) : i # j => m[i].name # m[j].name}

Stamp ==
    <<"2", "0", "2", "6", ".", "1", "1", ".", "0", "2", " ", "1", "7", ":",
      "5", "4", ":", "0", "1">>

SelectIdle ==
    /\ optimization_results = <<>>
    /\ forward_results = NoForward
    /\ criteria = NoCriteria
    /\ InitLocals

InitCodec ==
    /\ MoreIdle
    /\ SelectIdle
    /\ StoreIdle
    /\ \/ /\ parameters \in SingleMappings \cup PlainMappings
          /\ preset_name = <<"n">>
       \/ /\ parameters \in {m \in PlainMappings : Len(m) <= 1}
          /\ preset_name \in SeqsUpTo(PresetChars, MaxPresetLen)
    /\ now = Stamp
    /\ lines = <<>>
    /\ content = <<>>
    /\ parsed = <<>>
    /\ cpc = "start"

NextCodec == GenerateSetFile \/ ParseSetFile

SpecCodec == InitCodec /\ [][NextCodec]_vars

(***************************************************************************)
(* Inputs of parse_set_file called on a text of any origin.                *)
(***************************************************************************)
MaxLines == 2       \* lines of a content with several lines

LineLeads ==
    {<<>>,
     <<" ">>,
     <<";">>}

LineNames ==
    {<<>>,
     <<"a">>,
     <<" ", "b", " ">>}

LineSeps ==
    {<<>>,
     <<"=">>}

LineValues ==
    {<<>>,
     <<"1">>,
     <<"-", "2">>,
     <<"+", "1">>,
     <<"1", ".", "5">>,
     <<".">>,
     <<"x">>,
     <<"t", "r", "u", "e">>,
     <<"T", "R", "U", "E">>,
     <<" ", "1", " ">>,
     <<"1", "=", "2">>,
     <<"1", "|", "2">>}

LineTagParts ==
    {<<>>,
     <<"|", "|", "i", "n", "t">>,
     <<"|", "|", "d", "o", "u", "b", "l", "e">>,
     <<"|", "|", "b", "o", "o", "l">>,
     <<"|", "|", "s", "t", "r", "i", "n", "g">>,
     <<"|", "|", "x">>,
     <<"|", "|", " ", "i", "n", "t", " ", "|", "|">>,
     <<"|", "|", "i", "n", "t", "|", "|", "d">>,
     <<"|", "|">>,
     <<"|", "|", "|", "i", "n", "t">>}

\* One line: every combination of the pieces.
SingleLines ==
    {l \o n \o e \o x \o g :
        l \in LineLeads, n \in LineNames, e \in LineSeps, x \in LineValues,
        g \in LineTagParts}

PoolLines ==
    {<<"a", "=", "1", "|", "|", "i", "n", "t", "|", "|">>,
     <<"a", "=", "x", "|", "|", "i", "n", "t", "|", "|">>,
     <<>>,
     <<" ">>,
     <<";", "a", "=", "1">>,
     <<"b", "=", "t", "r", "u", "e", "|", "|", "b", "o", "o", "l", "|", "|">>,
     <<"a">>}

SeqsFromTo(S, m, n) == UNION {[1..k -> S] : k \in m..n}

\* Contents of several lines
PoolContents ==
    {Join(ls, <<"\n">>) : ls \in SeqsFromTo(PoolLines, 2, MaxLines)}

InitParse ==
    /\ MoreIdle
    /\ SelectIdle
    /\ StoreIdle
    /\ parameters = <<>>
    /\ preset_name = <<>>
    /\ now = <<>>
    /\ lines = <<>>
    /\ content \in SingleLines \cup PoolContents
    /\ parsed = <<>>
    /\ cpc = "generated"

NextParse == ParseSetFile

SpecParse == InitParse /\ [][NextParse]_vars

(***************************************************************************)
(* Inputs of compare_presets.                                              *)
(***************************************************************************)
P(k) == [n |-> k, t |-> 0]

BaseReport ==
    [other |-> TRUE, total_net_profit |-> Present(Some(1)),
     maximal_drawdown |-> Present(Some(1)), profit_factor |-> Present(Some(1)),
     sharpe_ratio |-> Present(Some(1)), recovery_factor |-> Present(Some(1))]

\* The dict {}
EmptyDict ==
    [other |-> FALSE, total_net_profit |-> Missing,
     maximal_drawdown |-> Missing, profit_factor |-> Missing,
     sharpe_ratio |-> Missing, recovery_factor |-> Missing]

MetricVals == {-1, 0, 1, 2}

\* What a report can hold under key k: to_dict writes None under
\* sharpe_ratio and, without a drawdown, under recovery_factor.
FieldChoices(k) ==
    {Missing} \cup {Present(Some(v)) : v \in MetricVals}
    \cup (IF k \in {"sharpe_ratio", "recovery_factor"} THEN {Present(None)}
          ELSE {})

\* Reports that differ from BaseReport under one key, the empty dict, and a
\* dict with none of the five keys.
CmpReports ==
    UNION {{[BaseReport EXCEPT ![k] = f] : f \in FieldChoices(k)} :
             k \in MetricKeys}
    \cup {EmptyDict, [EmptyDict EXCEPT !.other = TRUE]}

PlainArgs ==
    [name |-> "A", parameters |-> PlainParams,
     optimization_metrics |-> [profit |-> 1]]

OtherArgs ==
    [name |-> "B", parameters |-> [a |-> PyVal("int", 2)],
     optimization_metrics |-> [profit |-> 2]]

\* The store holding presets P(1)..P(n) with the reports brs[1]..brs[n];
\* presets of odd number are named A, the others B.
StoreOf(brs) ==
    [id \in {P(i) : i \in 1..Len(brs)} |->
       LET a == IF id.n % 2 = 1 THEN PlainArgs ELSE OtherArgs
       IN [NewPreset(a.name, a.parameters, a.optimization_metrics, 0)
             EXCEPT !.backtest_report = brs[id.n]]]

\* Two presets with every pair of reports, and up to MaxCmp presets with
\* reports of a small pool.
CmpStores ==
    {StoreOf(<<x, y>>) : x, y \in {None} \cup {Some(r) : r \in CmpReports}}
    \cup {StoreOf(brs) :
            brs \in SeqsUpTo({None, Some(BaseReport), Some(EmptyDict)}, MaxCmp)}

\* The ids a request names: those of the store and one more.
ReqIds == {P(i) : i \in 1..(MaxCmp + 1)}

InitCompare ==
    /\ MoreIdle
    /\ SelectIdle
    /\ CodecIdle
    /\ presets \in CmpStores
    /\ clock = 0
    /\ call = Call("new", NoId, None, TRUE, 0)
    /\ preset_ids \in SeqsUpTo(ReqIds, MaxReq)
    /\ presets_data = <<>>
    /\ detached = <<>>
    /\ comparison = NewComparison
    /\ metrics = InitMetrics
    /\ cmp_pc = "call"
    /\ cmp_i = 1
    /\ seen = {}

NextCompare == ComparePresets

SpecCompare == InitCompare /\ [][NextCompare]_vars

(***************************************************************************)
(* Inputs of the store.                                                    *)
(***************************************************************************)
\* Ids a caller supplies: one of another form and one of the generated form.
SuppliedIds == {NoId, P(1)}

AddArgs == {PlainArgs, OtherArgs}

StoreReports == {BaseReport, EmptyDict}

\* The ids a caller can ask for.
AllIds == {[n |-> k, t |-> u] : k \in 0..(MaxStore + 1), u \in 0..MaxClock}

\* The dicts of an exported text: presets of an earlier session.
ImportItems ==
    {[id |-> i,
      preset |-> [NewPreset("C", PlainParams, [profit |-> 3], 0)
                    EXCEPT !.notes = "kept"]] : i \in SuppliedIds}

InitStore ==
    /\ MoreIdle
    /\ SelectIdle
    /\ CodecIdle
    /\ StoreIdle

\* The calls of one second: the clock stands still, which is when generated
\* ids can repeat.
NextStore ==
    \/ \E a \in AddArgs, i \in {None} \cup {Some(x) : x \in SuppliedIds} :
         AddPreset(a, i)
    \/ \E i \in AllIds, r \in StoreReports : UpdatePresetBacktest(i, r)
    \/ \E i \in AllIds : DeletePreset(i)
    \/ \E l \in SeqsUpTo(ImportItems, MaxImport) : ImportPresets(l)

SpecStore == InitStore /\ [][NextStore]_vars

\* The manager under creates without an id and deletes only, as time passes.
NextGenerated ==
    \/ \E a \in AddArgs : AddPreset(a, None)
    \/ \E i \in AllIds : DeletePreset(i)
    \/ Tick

SpecGenerated == InitStore /\ [][NextGenerated]_vars

(***************************************************************************)
(* compare_presets on the shared manager while other requests delete       *)
(* presets and attach reports.                                             *)
(***************************************************************************)
LaterReport == [BaseReport EXCEPT !.total_net_profit = Present(Some(2))]

InitConcurrent ==
    /\ MoreIdle
    /\ SelectIdle
    /\ CodecIdle
    /\ presets \in {StoreOf(<<x, y>>) : x, y \in {None, Some(BaseReport)}}
    /\ clock = 0
    /\ call = Call("new", NoId, None, TRUE, 0)
    /\ preset_ids \in {<<P(1), P(2)>>, <<P(2), P(1)>>, <<P(1), P(3)>>}
    /\ presets_data = <<>>
    /\ detached = <<>>
    /\ comparison = NewComparison
    /\ metrics = InitMetrics
    /\ cmp_pc = "resolve"
    /\ cmp_i = 1
    /\ seen = {DOMAIN presets}

NextConcurrent ==
    \/ CmpResolve
    \/ CmpResolved
    \/ CmpBuild
    \/ CmpBuilt
    \/ CmpMetrics
    \/ CmpReturn
    \/ \E i \in {P(1), P(2)} : DeletePreset(i)
    \/ \E i \in {P(1), P(2)}, r \in {BaseReport, LaterReport} :
         UpdatePresetBacktest(i, r)

SpecConcurrent == InitConcurrent /\ [][NextConcurrent]_vars

(***************************************************************************)
(* Inputs of the request threads: each thread creates one preset without   *)
(* an id while reports are attached and presets deleted.                   *)
(***************************************************************************)
InitRace ==
    /\ SelectIdle
    /\ CodecIdle
    /\ StoreIdle
    /\ ReportIdle
    /\ OptIdle
    /\ PortfolioIdle
    /\ TransferIdle
    /\ adding \in [Threads -> {ThreadAt("start", a, NoId) : a \in AddArgs}]

NextRace ==
    \/ \E t \in Threads : AddName(t)
    \/ \E t \in Threads : AddStore(t)
    \/ \E id \in {P(1), P(2)} : UpdatePresetBacktest(id, LaterReport)
    \/ \E id \in {P(1), P(2)} : DeletePreset(id)

SpecRace == InitRace /\ [][NextRace]_vars

(***************************************************************************)
(* Inputs of the backtest report calls.                                    *)
(***************************************************************************)
MaxTrades == 3

MaxRows == 2

SomeTrade ==
    [ticket |-> <<"7">>, time |-> <<"t">>, type |-> <<"b">>, size |-> Unit,
     symbol |-> <<"E">>, price |-> Unit, profit |-> Unit]

\* Reports as a caller constructs them: every count of trades.
BuiltReports ==
    {[initial_deposit |-> Unit, total_net_profit |-> Unit,
      gross_profit |-> 2 * Unit, gross_loss |-> -Unit,
      profit_factor |-> 2 * Unit, expected_payoff |-> Unit,
      absolute_drawdown |-> 0, maximal_drawdown |-> Unit,
      relative_drawdown |-> Unit, total_trades |-> n,
      short_positions |-> 0, long_positions |-> 0, profit_trades |-> p,
      loss_trades |-> 0, sharpe_ratio |-> None,
      recovery_factor |-> Some(Ratio(1, 1)), trades |-> ts] :
        n \in (-1)..MaxTrades, p \in (-1)..MaxTrades,
        ts \in SeqsUpTo({SomeTrade}, 2)}

InitReport ==
    /\ SelectIdle
    /\ CodecIdle
    /\ StoreIdle
    /\ RaceIdle
    /\ OptIdle
    /\ PortfolioIdle
    /\ TransferIdle
    /\ rows = <<>>
    /\ bt_report \in {Some(r) : r \in BuiltReports}
    /\ as_dict = None
    /\ rpc = "built"

NextReport == ToDict

SpecReport == InitReport /\ [][NextReport]_vars

Labels ==
    {InitialDeposit, TotalNetProfit, GrossProfit, GrossLoss,
     ProfitFactorLabel, ExpectedPayoffLabel, AbsoluteDrawdown,
     MaximalDrawdown, RelativeDrawdown, TotalTrades, ShortPositions,
     LongPositions, ProfitTrades, LossTrades}

\* Texts of a value cell: empty, blank, numbers, a number with a percentage,
\* letters, a currency amount, two points.
ValueTexts ==
    {<<>>,
     <<" ">>,
     <<"2">>,
     <<"1", " ", "(", ".", "5", "%", ")">>,
     <<"a", "b", "c">>,
     <<"-", "1">>,
     <<"$", "0", ",", "1">>,
     <<"1", ".", "2", ".", "3">>}

TradeRow == <<<<"7">>, <<"t">>, <<"b">>, <<"1">>, <<"E">>, <<"1">>, <<"x">>>>

PoolRows ==
    {<<TotalTrades, <<"2">>>>,
     <<<<" ">> \o ProfitTrades, <<"1", " ">>>>,
     <<ProfitTrades, <<>>>>,
     <<MaximalDrawdown, <<"0", ".", "5">>>>,
     <<TotalNetProfit, <<"1">>>>,
     <<<<"x">>>>,
     TradeRow}

Documents ==
    {<<<<l, v>>>> : l \in Labels, v \in ValueTexts}
      \cup SeqsUpTo(PoolRows, MaxRows)

InitBacktest ==
    /\ SelectIdle
    /\ CodecIdle
    /\ StoreIdle
    /\ RaceIdle
    /\ OptIdle
    /\ PortfolioIdle
    /\ TransferIdle
    /\ rows \in Documents
    /\ bt_report = None
    /\ as_dict = None
    /\ rpc = "call"

NextBacktest == ParseBacktestReport \/ ToDict

SpecBacktest == InitBacktest /\ [][NextBacktest]_vars

(***************************************************************************)
(* Inputs of parse_optimization_report.                                    *)
(***************************************************************************)
MaxXmlRows == 2

MaxHtmlRows == 2

Param(name, text) == [name |-> name, text |-> text]

ParamLists ==
    {<<>>,
     <<Param(Some(<<"a">>), Some(<<"1">>))>>,
     <<Param(Some(<<"a">>), Some(<<"1", ".", "5">>))>>,
     <<Param(Some(<<"a">>), Some(<<"x">>))>>,
     <<Param(Some(<<"a">>), Some(<<"1", ".", "x">>))>>,
     <<Param(Some(<<"a">>), None)>>,
     <<Param(None, Some(<<" ", "2">>))>>,
     <<Param(Some(<<"a">>), Some(<<"1">>)),
       Param(Some(<<"b">>), Some(<<"2">>))>>,
     <<Param(Some(<<"a">>), Some(<<"1">>)),
       Param(Some(<<"a">>), Some(<<"2">>))>>}

FloatTexts ==
    {Missing, Present(None), Present(Some(<<"1", ".", "5">>)),
     Present(Some(<<"a", "b", "c">>))}

CountTexts ==
    {Missing, Present(None), Present(Some(<<"2">>)),
     Present(Some(<<"2", ".", "0">>))}

BaseRow ==
    [Pass |-> Some(<<"1">>),
     params |-> <<Param(Some(<<"a">>), Some(<<"1">>))>>,
     Result |-> Present(Some(<<"1", ".", "5">>)),
     Trades |-> Present(Some(<<"2">>)),
     ProfitFactor |-> Present(Some(<<"1", ".", "5">>)),
     ExpectedPayoff |-> Missing, Drawdown |-> Missing, Sharpe |-> Missing,
     Recovery |-> Missing]

\* Every combination of the Pass attribute and the texts of three children,
\* every list of parameters, every text of each other child.
FullRows ==
    {[BaseRow EXCEPT !.Pass = p, !.Result = r, !.Trades = t,
                     !.ProfitFactor = f] :
        p \in {None, Some(<<"1">>), Some(<<"x">>)}, r \in FloatTexts,
        t \in CountTexts, f \in FloatTexts}
      \cup {[BaseRow EXCEPT !.params = ps] : ps \in ParamLists}
      \cup UNION {{[BaseRow EXCEPT ![OptionalChildren[k]] = f] :
                     f \in FloatTexts} : k \in 1..Len(OptionalChildren)}

PoolXmlRows ==
    {BaseRow,
     [BaseRow EXCEPT !.Pass = None, !.Result = Present(Some(<<"2">>)),
                     !.ProfitFactor = Missing],
     [BaseRow EXCEPT !.Pass = Some(<<"x">>)]}

XmlDocument(rs) == [wellformed |-> TRUE, xrows |-> rs, table |-> None]

HtmlDocument(tab) == [wellformed |-> FALSE, xrows |-> <<>>, table |-> tab]

XmlDocuments ==
    {NoDocument}
      \cup {XmlDocument(<<r>>) : r \in FullRows}
      \cup {XmlDocument(rs) : rs \in SeqsUpTo(PoolXmlRows, MaxXmlRows)}

HeaderRows ==
    {<<<<"P", "a", "s", "s">>, <<"P", "r", "o", "f", "i", "t">>, <<"T", "r",
       "a", "d", "e", "s">>>>,
     <<<<"P", "a", "s", "s">>, <<"P", "r", "o", "f", "i", "t", " ", "F",
       "a", "c", "t", "o", "r">>, <<"L", "o", "t">>>>,
     <<<<"L", "o", "t">>, <<"P", "R", "O", "F", "I", "T">>, <<"P", "a", "y",
       "o", "f", "f">>, <<"D", "r", "a", "w", "d", "o", "w", "n">>>>,
     <<<<"P", "r", "o", "f", "i", "t", " ", "F", "a", "c", "t", "o", "r",
       " ", "T", "r", "a", "d", "e", "s">>, <<"N", "e", "t", " ", "p", "r",
       "o", "f", "i", "t">>>>,
     <<<<"P", "a", "s", "s">>, <<"P", "r", "o", "f", "i", "t">>, <<"P", "r",
       "o", "f", "i", "t">>>>,
     <<<<"P", "a", "s", "s">>>>}

DataRows ==
    {<<<<"1">>, <<"1", ".", "5">>, <<"2">>>>,
     <<<<"x">>, <<"1", ".", "5">>, <<"2", ".", "0">>>>,
     <<<<"7">>>>,
     <<<<"2">>, <<"0", ".", "5", "%">>, <<"1">>, <<"1", ".", "5">>>>,
     <<<<" ", "3", " ">>, <<"a", "b", "c">>, <<>>>>,
     <<<<"y">>, <<"$", "0", ",", "1">>, <<"2">>>>}

HtmlDocuments ==
    {HtmlDocument(None), HtmlDocument(Some(<<>>))}
      \cup {HtmlDocument(Some(<<h>> \o ds)) :
              h \in HeaderRows, ds \in SeqsUpTo(DataRows, MaxHtmlRows)}

\* Calls with the type of the document, and calls with another type.
OptCalls ==
    {<<"xml", d>> : d \in XmlDocuments}
      \cup {<<"html", d>> : d \in HtmlDocuments}
      \cup {<<t, d>> :
              t \in {"csv", "XML", "html"},
              d \in {NoDocument, XmlDocument(<<BaseRow>>)}}
      \cup {<<t, HtmlDocument(Some(<<>>))>> : t \in {"csv", "xml"}}

InitOptimization ==
    /\ SelectIdle
    /\ CodecIdle
    /\ StoreIdle
    /\ RaceIdle
    /\ ReportIdle
    /\ PortfolioIdle
    /\ TransferIdle
    /\ \E c \in OptCalls : file_type = c[1] /\ document = c[2]
    /\ results = <<>>
    /\ opc = "call"

NextOptimization == ParseOptimizationReport

SpecOptimization == InitOptimization /\ [][NextOptimization]_vars

(***************************************************************************)
(* Inputs of the portfolio objects: every combination of values on, next   *)
(* to and between the bounds for one object, and every length of the list  *)
(* for an object on the bounds.                                            *)
(***************************************************************************)
MaxCount == 11

MetricsArgs ==
    [name : {<<>>, <<"A">>, <<" ">>},
     equity : {-1, 0, Unit},
     drawdown : {-Unit, 0, 1},
     correlation : {-Unit - 1, -Unit, 0, Unit, Unit + 1},
     recovery : {-1, 0, Unit},
     profit : {-Unit, Unit}]

BoundaryArgs ==
    [name |-> <<"A">>, equity |-> 0, drawdown |-> 0, correlation |-> -Unit,
     recovery |-> 0, profit |-> Unit]

InitPortfolio ==
    /\ SelectIdle
    /\ CodecIdle
    /\ StoreIdle
    /\ RaceIdle
    /\ ReportIdle
    /\ OptIdle
    /\ TransferIdle
    /\ \/ metrics_args \in MetricsArgs /\ count = 1
       \/ metrics_args = BoundaryArgs /\ count \in 0..MaxCount
    /\ strategies = <<>>
    /\ vpc = "call"

NextPortfolio == NewStrategyMetrics \/ NewPortfolioAnalysisRequest

SpecPortfolio == InitPortfolio /\ [][NextPortfolio]_vars

(***************************************************************************)
(* Inputs of export and import: a store of presets with parameters of      *)
(* every type, with and without a report, and an importing manager that is *)
(* new or holds presets of its own.                                        *)
(***************************************************************************)
MaxTransfer == 2

TransferPresets ==
    {NewPreset("A", PlainParams, [profit |-> 1], 0),
     [NewPreset("B", [a |-> PyVal("float", Unit)], [profit |-> 2], 1)
        EXCEPT !.backtest_report = Some(BaseReport), !.notes = "kept"],
     [NewPreset("C", [a |-> PyVal("bool", 1), b |-> StrVal(<<"x">>)],
                [profit |-> 0], 0)
        EXCEPT !.backtest_report = Some(EmptyDict)],
     [NewPreset("D", [a |-> NoneVal, b |-> PyVal("int", 0)], [profit |-> 1], 0)
        EXCEPT !.backtest_report =
                 Some([BaseReport EXCEPT !.sharpe_ratio = Present(None)])]}

OwnPreset == NewPreset("T", PlainParams, [profit |-> 3], 0)

TransferStores ==
    UNION {[{P(i) : i \in 1..n} -> TransferPresets] : n \in 0..MaxTransfer}

TargetStores ==
    {[id \in S |-> OwnPreset] : S \in SUBSET {P(2), P(3)}}

InitTransfer ==
    /\ SelectIdle
    /\ CodecIdle
    /\ CompareIdle
    /\ RaceIdle
    /\ ReportIdle
    /\ OptIdle
    /\ PortfolioIdle
    /\ presets \in TransferStores
    /\ clock = 0
    /\ call = Call("new", NoId, None, TRUE, 0)
    /\ exported = None
    /\ target \in TargetStores
    /\ xpc = "call"

NextTransfer == ExportPresets \/ ImportExported

SpecTransfer == InitTransfer /\ [][NextTransfer]_vars

(***************************************************************************)
(* Properties of the selection engine.                                     *)
(***************************************************************************)
Rec(i) == optimization_results[i]

Elems(s) == {s[j] : j \in 1..Len(s)}

\* The threshold the caller's criteria put on option k: the supplied value,
\* else the documented default (<<>> where the default is "no limit").
Threshold(k) ==
    IF criteria.given /\ k \in DOMAIN criteria.opts THEN criteria.opts[k]
    ELSE CASE k = "min_profit" -> <<0>>
           [] k = "min_profit_factor" -> <<1>>
           [] k = "min_trades" -> <<10>>
           [] k = "top_n" -> <<10>>
           [] OTHER -> <<>>

\* C1: every returned record has profit >= minProfit, totalTrades >=
\* minTrades and a profitFactor that is absent or >= minProfitFactor, for
\* every numeric profitFactor including 0.
C1_ThresholdsMet ==
    pc = "done" =>
        \A i \in Elems(result) :
            /\ Rec(i).profit >= Threshold("min_profit")[1]
            /\ Rec(i).total_trades >= Threshold("min_trades")[1]
            /\ \/ Rec(i).profit_factor = <<>>
               \/ Rec(i).profit_factor[1] >= Threshold("min_profit_factor")[1]

\* C2: when maxDrawdown, minSharpe or minRecovery is supplied with any numeric
\* value (0 included), no returned record has a present drawdownPercent above
\* maxDrawdown, a present sharpeRatio below minSharpe or a present
\* recoveryFactor below minRecovery (a present 0 counts as present).
C2_OptionalLimitsMet ==
    pc = "done" =>
        \A i \in Elems(result) :
            /\ (Threshold("max_drawdown") # <<>>
                  /\ Rec(i).drawdown_percent # <<>>)
                 => Rec(i).drawdown_percent[1] <= Threshold("max_drawdown")[1]
            /\ (Threshold("min_sharpe") # <<>> /\ Rec(i).sharpe_ratio # <<>>)
                 => Rec(i).sharpe_ratio[1] >= Threshold("min_sharpe")[1]
            /\ (Threshold("min_recovery") # <<>>
                  /\ Rec(i).recovery_factor # <<>>)
                 => Rec(i).recovery_factor[1] >= Threshold("min_recovery")[1]

ProfitDescStable(s) ==
    \A a, b \in 1..Len(s) :
        a < b =>
            /\ Rec(s[a]).profit >= Rec(s[b]).profit
            /\ Rec(s[a]).profit = Rec(s[b]).profit => s[a] < s[b]

AllOptionalAbsent(r) ==
    /\ r.profit_factor = <<>>
    /\ r.drawdown_percent = <<>>
    /\ r.sharpe_ratio = <<>>
    /\ r.recovery_factor = <<>>

\* Whether record i passes the filter conditions when option k has the value
\* v and every other option stays as it is in force.
SurvivesWith(i, k, v) ==
    ~Excluded(Rec(i), [default_criteria EXCEPT ![k] = <<v>>])

\* C8: an absent profitFactor, drawdownPercent, sharpeRatio or recoveryFactor
\* never excludes a record, whatever the value of its criterion; a record with
\* all four absent survives the filter iff profit >= minProfit and
\* totalTrades >= minTrades.
C8_AbsentNeverExcludes ==
    (pc = "done" /\ optimization_results # <<>>) =>
        \A i \in 1..Len(optimization_results) :
            /\ AllOptionalAbsent(Rec(i)) =>
                 (i \in Elems(filtered) <=>
                     /\ Rec(i).profit >= Threshold("min_profit")[1]
                     /\ Rec(i).total_trades >= Threshold("min_trades")[1])
            /\ \A v \in {0, 1, 3, 100} :
                 /\ Rec(i).profit_factor = <<>> =>
                      (SurvivesWith(i, "min_profit_factor", v)
                         <=> i \in Elems(filtered))
                 /\ Rec(i).drawdown_percent = <<>> =>
                      (SurvivesWith(i, "max_drawdown", v)
                         <=> i \in Elems(filtered))
                 /\ Rec(i).sharpe_ratio = <<>> =>
                      (SurvivesWith(i, "min_sharpe", v)
                         <=> i \in Elems(filtered))
                 /\ Rec(i).recovery_factor = <<>> =>
                      (SurvivesWith(i, "min_recovery", v)
                         <=> i \in Elems(filtered))

\* A record without optional metrics survives criteria that set every
\* optional limit.
C8_Witness ==
    /\ pc = "done"
    /\ criteria.given
    /\ {"min_profit_factor", "max_drawdown", "min_sharpe", "min_recovery"}
          \subseteq DOMAIN criteria.opts
    /\ criteria.opts["max_drawdown"] = <<1>>
    /\ \E i \in Elems(result) : AllOptionalAbsent(Rec(i))

\* The defaults overridden key by key with the caller's criteria.
Overridden ==
    [k \in CriteriaKeys |-> Threshold(k)]

\* C9: every option the caller does not supply has its default (minProfit 0,
\* minProfitFactor 1.0, minTrades 10, maxDrawdown/minSharpe/minRecovery unset,
\* topN 10), a supplied option changes only that option, and the result for
\* criteria C is the result for the fully overridden defaults.
C9_DefaultsOverriddenPerKey ==
    (pc = "done" /\ optimization_results # <<>>) =>
        /\ \A k \in CriteriaKeys : default_criteria[k] = Overridden[k]
        /\ result =
             Select(optimization_results, forward_results,
                    [given |-> TRUE, opts |-> Overridden]).result

\* The caller supplies min_trades only; a record with 5 trades is returned,
\* which the default min_trades = 10 would drop.
C9_Witness ==
    /\ pc = "done"
    /\ criteria.given
    /\ DOMAIN criteria.opts = {"min_trades"}
    /\ \E i \in Elems(result) : Rec(i).total_trades = 5

(***************************************************************************)
(* Properties of the cross-validation.                                     *)
(***************************************************************************)
Fwd(j) == forward_results.items[j]

NonEmptyForward == forward_results.given /\ forward_results.items # <<>>

\* Forward record j is the first one whose parameters equal those of record i.
FirstMatch(i, j) ==
    /\ DictEq(Rec(i).parameters, Fwd(j).parameters)
    /\ \A k \in 1..(j - 1) : ~DictEq(Rec(i).parameters, Fwd(k).parameters)

\* C4: with forward records, a surviving record is in the output iff the
\* first forward record whose parameters equal its own has profit > 0; a later
\* equal forward record with profit > 0 does not rescue it.
C4_FirstMatchDecides ==
    (pc = "done" /\ NonEmptyForward) =>
        \A i \in Elems(top_results) :
            i \in Elems(result) <=>
                \E j \in 1..Len(forward_results.items) :
                    FirstMatch(i, j) /\ Fwd(j).profit > 0

\* The first equal forward record lost money, a later equal one made money:
\* the record is dropped.
C4_Witness ==
    /\ pc = "done"
    /\ Len(optimization_results) = 1
    /\ Len(forward_results.items) = 2
    /\ FirstMatch(1, 1) /\ Fwd(1).profit = 0
    /\ Fwd(2).parameters = Rec(1).parameters /\ Fwd(2).profit > 0
    /\ top_results = <<1>>
    /\ result = <<>>

\* C5: whenever a forward sequence is supplied, of any length including zero,
\* every surviving record without a parameter-equal forward record is absent
\* from the output.
C5_UnmatchedDropped ==
    (pc = "done" /\ forward_results.given) =>
        \A i \in Elems(top_results) :
            (\A j \in 1..Len(forward_results.items) :
                ~DictEq(Rec(i).parameters, Fwd(j).parameters))
            => i \notin Elems(result)

\* Full mapping equality: the same keys and, per key, the same value of the
\* same type.
TypedEq(p, q) ==
    /\ DOMAIN p = DOMAIN q
    /\ \A k \in DOMAIN p : p[k] = q[k]

\* C6: cross-validation matches two records only when their parameters
\* mappings have the same keys and, for every key, the same value of the same
\* type: every record kept was matched to a profitable forward record with
\* type-identical parameters.
C6_TypedMatchOnly ==
    (pc = "done" /\ NonEmptyForward) =>
        \A i \in Elems(result) :
            \E j \in 1..Len(forward_results.items) :
                /\ TypedEq(Rec(i).parameters, Fwd(j).parameters)
                /\ Fwd(j).profit > 0

PosIn(s, x) == CHOOSE j \in 1..Len(s) : s[j] = x

\* s is a subsequence of t, for sequences without repeated elements.
IsSubseq(s, t) ==
    /\ Elems(s) \subseteq Elems(t)
    /\ \A a, b \in 1..Len(s) : a < b => PosIn(t, s[a]) < PosIn(t, s[b])

\* C7: with forward records supplied the output is a subsequence of what the
\* same call returns without them (same relative order, so profit-descending
\* and at most topN long), whatever the order of the forward sequence.
C7_SubsequenceOfUnvalidated ==
    (pc = "done" /\ forward_results.given) =>
        /\ IsSubseq(result,
                    Select(optimization_results, NoForward, criteria).result)
        /\ ProfitDescStable(result)
        /\ Len(result) <= Threshold("top_n")[1]

\* Both records are validated; the forward sequence lists their matches in the
\* opposite order of the output.
C7_Witness ==
    /\ pc = "done"
    /\ Len(optimization_results) = 2
    /\ Len(forward_results.items) = 2
    /\ FirstMatch(1, 1) /\ FirstMatch(2, 2)
    /\ ~DictEq(Rec(1).parameters, Rec(2).parameters)
    /\ result = <<2, 1>>

(***************************************************************************)
(* Properties of the codec.                                                *)
(***************************************************************************)
Names(params) == {params[i].name : i \in 1..Len(params)}

\* The decoded value y has the type of x and equals it; two floats are equal
\* when they differ by at most half a unit of the last decimal kept.
SameValue(x, y) ==
    /\ y.t = x.t
    /\ IF x.t = "float"
       THEN 2 * (IF y.v >= x.v THEN y.v - x.v ELSE x.v - y.v) <= 10
       ELSE y.v = x.v /\ y.s = x.s

\* C10: parse_set_file(generate_set_file(P, name)) has exactly the keys of P,
\* each with a value of the same type as in P and equal to it (floats up to 8
\* decimal places), for every mapping P and preset name.
C10_RoundTrip ==
    cpc = "parsed" =>
        /\ DOMAIN parsed = Names(parameters)
        /\ \A i \in 1..Len(parameters) :
             SameValue(parameters[i].value, parsed[parameters[i].name])

\* The tag the format prescribes for a value of each Python type.
PrescribedTag(x) ==
    CASE x.t = "bool" -> <<"b", "o", "o", "l">>
      [] x.t = "int" -> <<"i", "n", "t">>
      [] x.t = "float" -> <<"d", "o", "u", "b", "l", "e">>
      [] OTHER -> <<"s", "t", "r", "i", "n", "g">>

\* t is a value text the format prescribes for x: true/false for a bool, the
\* decimal digits of an int, a float rounded to FloatDecimals decimal places,
\* the text itself for a str.
PrescribedValueText(x, t) ==
    CASE x.t = "bool" ->
           t = IF x.v = 1 THEN <<"t", "r", "u", "e">>
               ELSE <<"f", "a", "l", "s", "e">>
      [] x.t = "int" ->
           /\ IsIntText(t)
           /\ TextToInt(t) = x.v
           /\ Head(t) # "+"
      [] x.t = "float" ->
           /\ IsFloatText(t)
           /\ Len(t) > FloatDecimals + 1
           /\ t[Len(t) - FloatDecimals] = "."
           /\ 2 * (TextToFloat(t) - x.v) \in -10..10
      [] OTHER -> t = x.s

\* ln is name=value||tag|| for the item
IsParamLine(ln, item) ==
    LET pre == item.name \o <<"=">>
        suf == <<"|", "|">> \o PrescribedTag(item.value) \o <<"|", "|">>
    IN /\ Len(ln) >= Len(pre) + Len(suf)
       /\ SubSeq(ln, 1, Len(pre)) = pre
       /\ SubSeq(ln, Len(ln) - Len(suf) + 1, Len(ln)) = suf
       /\ PrescribedValueText(item.value,
                              SubSeq(ln, Len(pre) + 1, Len(ln) - Len(suf)))

BreakAt(text, k) ==
    IF k = 0 THEN 0
    ELSE IF k > Cardinality({q \in 1..Len(text) : text[q] = "\n"})
    THEN Len(text) + 1
    ELSE CHOOSE q \in 1..Len(text) :
           /\ text[q] = "\n"
           /\ Cardinality({r \in 1..q : text[r] = "\n"}) = k

LineCount(text) == Cardinality({q \in 1..Len(text) : text[q] = "\n"}) + 1

LineOf(text, k) ==
    SubSeq(text, BreakAt(text, k - 1) + 1, BreakAt(text, k) - 1)

\* t without the white space around it
Trimmed(t) ==
    LET ink == {i \in 1..Len(t) : t[i] \notin {" ", "\n"}}
    IN IF ink = {} THEN <<>>
       ELSE SubSeq(t, CHOOSE i \in ink : \A j \in ink : i <= j,
                      CHOOSE i \in ink : \A j \in ink : i >= j)

\* The first position at or after `from` where "||" begins, 0 if there is none.
BarsFrom(t, from) ==
    LET at == {i \in from..(Len(t) - 1) : t[i] = "|" /\ t[i + 1] = "|"}
    IN IF at = {} THEN 0 ELSE CHOOSE i \in at : \A j \in at : i <= j

\* A line that is neither blank nor a comment and has a '='.
IsEntry(ln) ==
    /\ Trimmed(ln) # <<>>
    /\ Head(Trimmed(ln)) # ";"
    /\ \E i \in 1..Len(ln) : ln[i] = "="

\* The name, value text and type tag of an entry line
EntryParts(ln) ==
    LET t == Trimmed(ln)
        eq == CHOOSE i \in 1..Len(t) :
                t[i] = "=" /\ \A j \in 1..(i - 1) : t[j] # "="
        rest == SubSeq(t, eq + 1, Len(t))
        b1 == BarsFrom(rest, 1)
        b2 == IF b1 = 0 THEN 0 ELSE BarsFrom(rest, b1 + 2)
    IN [name |-> Trimmed(SubSeq(t, 1, eq - 1)),
        value |-> Trimmed(IF b1 = 0 THEN rest ELSE SubSeq(rest, 1, b1 - 1)),
        tag |-> IF b1 = 0 THEN <<"s", "t", "r", "i", "n", "g">>
                ELSE Trimmed(SubSeq(rest, b1 + 2,
                                    IF b2 = 0 THEN Len(rest) ELSE b2 - 1))]

\* The value an entry stands for.
EntryValue(e) ==
    CASE e.tag = <<"b", "o", "o", "l">> ->
           PyVal("bool", IF Lower(e.value) = <<"t", "r", "u", "e">> THEN 1
                         ELSE 0)
      [] e.tag = <<"i", "n", "t">> ->
           PyVal("int", IF IsIntText(e.value) THEN TextToInt(e.value) ELSE 0)
      [] e.tag = <<"d", "o", "u", "b", "l", "e">> ->
           PyVal("float", IF IsFloatText(e.value) THEN TextToFloat(e.value)
                          ELSE 0)
      [] OTHER -> StrVal(e.value)

\* C12: parse_set_file never raises on any text: it ignores blank lines and
\* lines starting with ';', splits each remaining line on its first '=',
\* takes the first '||' segment as the value and the second as the type tag
\* (string when absent), and yields 0 for an unparseable int, 0.0 for an
\* unparseable double and the raw value text for an unrecognized tag; the
\* last entry of a name decides.
C12_ParseTotalAndRules ==
    /\ cpc # "raised"
    /\ cpc = "parsed" =>
         LET entries == {k \in 1..LineCount(content) :
                            IsEntry(LineOf(content, k))}
             Part(k) == EntryParts(LineOf(content, k))
         IN /\ DOMAIN parsed = {Part(k).name : k \in entries}
            /\ \A k \in entries :
                 (\A j \in entries : j > k => Part(j).name # Part(k).name)
                   => parsed[Part(k).name] = EntryValue(Part(k))

\* A text that is no number was parsed under the int tag.
C12_Witness ==
    /\ cpc = "parsed"
    /\ content = <<"a", "=", "x", "|", "|", "i", "n", "t">>
    /\ parsed = (<<"a">> :> PyVal("int", 0))

(***************************************************************************)
(* Properties of compare_presets.                                          *)
(***************************************************************************)
\* The positions of the request whose id is in the store
ResolvedAt == {i \in 1..Len(preset_ids) : preset_ids[i] \in DOMAIN presets}

\* The id at the k-th of these positions.
ResolvedId(k) ==
    preset_ids[CHOOSE i \in ResolvedAt :
                 Cardinality({j \in ResolvedAt : j <= i}) = k]

Returned == cmp_pc = "done"

Succeeded == cmp_pc = "done" /\ ~comparison.error

\* C13: compare_presets skips the ids that are not in the store, returns the
\* error result exactly when no requested id resolves, and otherwise
\* returns a summary list with one entry per resolved id, in request order.
C13_MissingSkipped ==
    Returned =>
      /\ comparison.error <=> ResolvedAt = {}
      /\ Len(comparison.presets) = Cardinality(ResolvedAt)
      /\ \A k \in 1..Cardinality(ResolvedAt) :
           LET e == comparison.presets[k]
               q == presets[ResolvedId(k)]
           IN /\ e.id = ResolvedId(k)
              /\ e.name = q.name
              /\ e.parameters = q.parameters
              /\ e.optimization_metrics = q.optimization_metrics

\* A request naming a missing id before two stored ones was answered.
C13_Witness ==
    /\ Succeeded
    /\ Len(preset_ids) = 3
    /\ preset_ids[1] \notin DOMAIN presets
    /\ preset_ids[2] \in DOMAIN presets
    /\ preset_ids[3] \in DOMAIN presets
    /\ preset_ids[2] # preset_ids[3]

ChartLengths ==
    {Len(comparison.chart_data[a]) :
       a \in {"labels", "profit", "drawdown", "profit_factor", "sharpe_ratio",
              "recovery_factor"}}

\* The places of the resolved ids whose preset has a report attached.
AttachedAt ==
    {k \in 1..Cardinality(ResolvedAt) :
       presets[ResolvedId(k)].backtest_report # None}

AttachedId(i) ==
    ResolvedId(CHOOSE k \in AttachedAt :
                 Cardinality({j \in AttachedAt : j <= k}) = i)

\* C14: in a successful result the six chart arrays have one length, the
\* number of resolved presets with a report attached (a report without keys
\* included), and entry i of each array comes from the i-th such preset.
C14_ChartsPerAttachedReport ==
    Succeeded =>
      /\ ChartLengths = {Cardinality(AttachedAt)}
      /\ \A i \in 1..Cardinality(AttachedAt) :
           LET q == presets[AttachedId(i)]
               r == q.backtest_report[1]
               c == comparison.chart_data
           IN /\ c.labels[i] = q.name
              /\ c.profit[i] = Get(r, "total_net_profit", Some(0))
              /\ c.drawdown[i] = Get(r, "maximal_drawdown", Some(0))
              /\ c.profit_factor[i] = Get(r, "profit_factor", Some(0))
              /\ c.sharpe_ratio[i] = Get(r, "sharpe_ratio", Some(0))
              /\ c.recovery_factor[i] = Get(r, "recovery_factor", Some(0))

\* The places of the resolved ids whose report holds a number under key k.
Candidates(k) ==
    {i \in AttachedAt :
       LET r == presets[ResolvedId(i)].backtest_report[1]
       IN r[k] # Missing /\ r[k][1] # None}

MetricAt(k, i) == presets[ResolvedId(i)].backtest_report[1][k][1][1]

\* The selection under `slot` names the first resolved preset whose number
\* under key k is the largest (sign = 1) or the smallest (sign = -1).
NamesExtremum(slot, k, sign) ==
    Candidates(k) # {} =>
      LET sel == comparison.metrics_comparison[slot]
          top == CHOOSE i \in Candidates(k) :
                   /\ \A j \in Candidates(k) :
                        sign * MetricAt(k, i) >= sign * MetricAt(k, j)
                   /\ \A j \in Candidates(k) :
                        MetricAt(k, j) = MetricAt(k, i) => i <= j
      IN /\ sel # None
         /\ sel[1].value = MetricAt(k, top)
         /\ sel[1].preset_id = ResolvedId(top)

\* C15: each of the five best-of selections names a preset whose value is
\* the extremum of its metric over the compared presets carrying a report,
\* and among presets tied on the extremum the first in request order.
C15_BestOfAreExtrema ==
    Succeeded =>
      /\ NamesExtremum("best_profit", "total_net_profit", 1)
      /\ NamesExtremum("best_sharpe", "sharpe_ratio", 1)
      /\ NamesExtremum("best_recovery", "recovery_factor", 1)
      /\ NamesExtremum("lowest_drawdown", "maximal_drawdown", -1)
      /\ NamesExtremum("best_profit_factor", "profit_factor", 1)

\* The stored presets among the compared ones that carry a report
Carriers ==
    {ResolvedId(k) : k \in AttachedAt}

\* C16: when exactly one of the compared presets carries a report, whatever
\* report it is, all five best-of selections are non-null and point to that
\* preset, and the chart arrays hold that preset alone.
C16_SingleReportWinsAll ==
    (Succeeded /\ Cardinality(Carriers) = 1 /\ Cardinality(AttachedAt) = 1) =>
      /\ \A slot \in DOMAIN NoMetrics :
           /\ comparison.metrics_comparison[slot] # None
           /\ comparison.metrics_comparison[slot][1].preset_id \in Carriers
      /\ ChartLengths = {1}
      /\ Len(comparison.presets) = Cardinality(ResolvedAt)

(***************************************************************************)
(* Properties of the store.                                                *)
(***************************************************************************)
\* The step is a call of the operation op: every call writes its record,
\* and no other step changes the dict or the record.
CallOf(op) == call'.op = op /\ <<presets, call>>' # <<presets, call>>

\* C17: after any sequence of creates without an id and deletes, the id a
\* create generates is the id of no stored preset, so the create replaces
\* nothing and the store grows by one entry.
C17_GeneratedIdsFresh ==
    [][CallOf("add") =>
         /\ call'.id \notin DOMAIN presets
         /\ Cardinality(DOMAIN presets') = Cardinality(DOMAIN presets) + 1]_vars

\* C18: as long as a preset stays in the store its name, parameters,
\* optimization metrics and creation time stay as they are and an attached
\* report is not removed; only update_preset_backtest changes a stored
\* preset.
C18_StoredPresetsStable ==
    [][\A id \in DOMAIN presets \cap DOMAIN presets' :
         /\ presets'[id].name = presets[id].name
         /\ presets'[id].parameters = presets[id].parameters
         /\ presets'[id].optimization_metrics
              = presets[id].optimization_metrics
         /\ presets'[id].created_at = presets[id].created_at
         /\ presets[id].backtest_report # None
              => presets'[id].backtest_report # None
         /\ presets'[id] # presets[id] => call'.op = "update"]_vars

\* C19: update_preset_backtest and delete_preset return False for an id
\* that is not stored and leave the store as it is; for a stored id they
\* return True and change that preset alone (the report is attached, the
\* entry is removed), and after the delete get_preset finds nothing.
C19_UnknownIdsRefused ==
    [][/\ CallOf("update") =>
            IF call'.id \in DOMAIN presets
            THEN /\ call'.ok
                 /\ DOMAIN presets' = DOMAIN presets
                 /\ presets'[call'.id] =
                      [presets[call'.id] EXCEPT
                         !.backtest_report = call'.report]
                 /\ \A o \in DOMAIN presets \ {call'.id} :
                      presets'[o] = presets[o]
            ELSE ~call'.ok /\ presets' = presets
       /\ CallOf("delete") =>
            IF call'.id \in DOMAIN presets
            THEN /\ call'.ok
                 /\ DOMAIN presets' = DOMAIN presets \ {call'.id}
                 /\ \A o \in DOMAIN presets' : presets'[o] = presets[o]
                 /\ GetPreset(presets', call'.id) = None
            ELSE ~call'.ok /\ presets' = presets]_vars

\* A stored preset was deleted and another one is left.
C19_Witness ==
    /\ call.op = "delete"
    /\ call.ok
    /\ call.id \notin DOMAIN presets
    /\ DOMAIN presets # {}

(***************************************************************************)
(* Properties of compare_presets on the shared manager.                    *)
(***************************************************************************)
\* The best-of selections computed from the reports the summary list holds,
\* which are the reports the chart arrays were filled from.
RECURSIVE MetricsOfSummary(_, _)
MetricsOfSummary(m, entries) ==
    IF entries = <<>> THEN m.metrics
    ELSE MetricsOfSummary(
           MetricsStep(m, Head(entries).id,
                       [name |-> Head(entries).name,
                        backtest_report |-> Head(entries).backtest_metrics]),
           Tail(entries))

\* C20: a compare_presets call that runs while other requests delete
\* presets and attach reports returns a result of a single store state:
\* the resolved presets are the requested ids present in one state the
\* store had during the call, and the best-of selections are computed from
\* the reports the chart arrays are computed from.
C20_SingleStoreState ==
    Returned =>
      /\ \E keys \in seen :
           Elems(presets_data) = Elems(preset_ids) \cap keys
      /\ ~comparison.error =>
           comparison.metrics_comparison
             = MetricsOfSummary(InitMetrics, comparison.presets)

(***************************************************************************)
(* Properties of repeated selection.                                       *)
(***************************************************************************)
\* The second call returned what the first call returned.
SameSelection == pc = "again" => reselected = result

\* Neither call assigns to the list it was given or to the caller's criteria.
InputsKept ==
    [][/\ optimization_results' = optimization_results
       /\ criteria' = criteria]_vars

\* C29 as stated: for every R and every C, select(select(R, C), C) is
\* select(R, C).
C29_IdempotentForEveryCriteria == SameSelection

\* The top_n in force is a count.
CountTopN ==
    criteria.given /\ "top_n" \in DOMAIN criteria.opts
      => criteria.opts.top_n[1] >= 0

\* C29, amended: for every R and every C whose top_n is not negative,
\* select(select(R, C), C) is select(R, C); and for every C the calls leave
\* the input list and the caller's criteria as they were.
C29_IdempotentForCounts ==
    /\ [](CountTopN => SameSelection)
    /\ InputsKept

\* A second call on a result that dropped and reordered records.
C29_Witness ==
    /\ pc = "again"
    /\ CountTopN
    /\ Len(result) >= 2
    /\ Len(result) < Len(optimization_results)
    /\ result[1] > result[2]

(***************************************************************************)
(* Properties of concurrent calls on the store.                            *)
(***************************************************************************)
\* The thread stores its preset in this step.
Stores(t) == adding[t].pc = "named" /\ adding'[t].pc = "done"

\* C21: mutating calls exclude each other, so a create call keeps what the
\* calls before it put in the store: the preset it stores goes under an id
\* no stored preset has, and every stored preset stays as it is; two
\* concurrent creates therefore end with both presets under distinct ids.
C21_CreatesExclusive ==
    [][\A t \in Threads :
         Stores(t) =>
           /\ adding[t].id \notin DOMAIN presets
           /\ \A id \in DOMAIN presets : presets'[id] = presets[id]]_vars

(***************************************************************************)
(* Properties of the backtest report.                                      *)
(***************************************************************************)
\* C22: to_dict() never raises a division error, and its win_rate is
\* profit_trades / total_trades * 100 when total_trades > 0 and 0 otherwise.
C22_WinRateGuarded ==
    /\ rpc # "division"
    /\ rpc = "dict" =>
         LET r == bt_report[1]
             w == as_dict[1].win_rate
         IN IF r.total_trades > 0
            THEN w.num * r.total_trades = r.profit_trades * 100 * w.den
            ELSE w.num = 0

\* to_dict() of a report with winning trades and no trades in total, and of
\* one with a third of its trades winning.
C22_Witness ==
    /\ rpc = "dict"
    /\ \/ bt_report[1].total_trades = 0 /\ bt_report[1].profit_trades = 1
       \/ as_dict[1].win_rate = [num |-> 100, den |-> 3]

\* The float fields with their labels, and the text each is extracted from.
FloatFields ==
    {<<InitialDeposit, "initial_deposit">>,
     <<TotalNetProfit, "total_net_profit">>,
     <<GrossProfit, "gross_profit">>,
     <<GrossLoss, "gross_loss">>,
     <<ProfitFactorLabel, "profit_factor">>,
     <<ExpectedPayoffLabel, "expected_payoff">>,
     <<AbsoluteDrawdown, "absolute_drawdown">>,
     <<MaximalDrawdown, "maximal_drawdown">>,
     <<TotalTrades, "total_trades">>}

\* No number can be read from the text.
Unparseable(text) == ~IsFloatText(Cleaned(text))

\* C23: parse_backtest_report never raises, whatever the value texts, also
\* for an empty or blank value of a "(won %)" or "(% of total)" label, and a
\* numeric field whose text cannot be parsed is 0.
C23_NeverRaises ==
    /\ rpc # "raised"
    /\ rpc \in {"parsed", "dict"} =>
         \A f \in FloatFields :
           Unparseable(TextGet(MetricsOfRows(rows), f[1]))
             => bt_report[1][f[2]] = 0

(***************************************************************************)
(* Properties of parse_optimization_report.                                *)
(***************************************************************************)
OptDone == opc \notin {"idle", "call"}

\* Every Row element carries a Result and a Trades element.
RowsCarryMetrics ==
    \A k \in 1..Len(document.xrows) :
      document.xrows[k].Result # Missing /\ document.xrows[k].Trades # Missing

\* The number a text stands for, or the default when it stands for none.
FloatOr(text, default) ==
    IF text # None /\ IsFloat(text[1]) THEN Some(ToFloat(text[1]))
    ELSE default

IntOr(text, default) ==
    IF text # None /\ IsInt(text[1]) THEN ToInt(text[1]) ELSE default

\* C24: no numeric-conversion failure is raised.  In the XML path a Pass
\* attribute or a Result, Trades, ProfitFactor, ExpectedPayoff, Drawdown,
\* Sharpe or Recovery text that is no number yields a record with the field
\* at its default (0, 0.0 or absent); in the HTML path the call returns
\* whatever the cells hold.
C24_ConversionsNeverRaise ==
    /\ OptDone /\ file_type = "xml" /\ document.wellformed /\ RowsCarryMetrics
         => /\ opc = "returned"
            /\ Len(results) = Len(document.xrows)
            /\ \A k \in 1..Len(results) :
                 LET row == document.xrows[k]
                 IN /\ results[k].pass_number = IntOr(row.Pass, 0)
                    /\ results[k].profit = FloatOr(row.Result[1], Some(0))[1]
                    /\ results[k].total_trades = IntOr(row.Trades[1], 0)
                    /\ row.ProfitFactor # Missing =>
                         results[k].profit_factor
                           = FloatOr(row.ProfitFactor[1], None)
    /\ OptDone /\ file_type = "html" /\ document.table # None
         => opc = "returned"

\* The call is one the contract refuses: a format other than xml and html,
\* XML that is not well-formed, HTML without a table.
Refused ==
    \/ file_type \notin {"xml", "html"}
    \/ file_type = "xml" /\ ~document.wellformed
    \/ file_type = "html" /\ document.table = None

\* C25: the call fails with an error and returns no records when the
\* format is neither xml nor html, when the XML is not well-formed and when
\* the HTML has no table; in every other case (well-formed XML whose Rows
\* carry Result and Trades, HTML with a table) it returns a record sequence.
C25_FailsExactlyWhenRefused ==
    OptDone =>
      /\ Refused => opc # "returned" /\ results = <<>>
      /\ ~Refused /\ (file_type = "xml" => RowsCarryMetrics)
           => opc = "returned"

\* The value the claim gives a Parameter text: float with a decimal point,
\* else integer, the raw text when the conversion fails.
TypedParam(text) ==
    IF text = None THEN NoneVal
    ELSE IF Find(text[1], <<".">>) # 0 /\ IsFloat(text[1])
    THEN PyVal("float", ToFloat(text[1]))
    ELSE IF Find(text[1], <<".">>) = 0 /\ IsInt(text[1])
    THEN PyVal("int", ToInt(text[1]))
    ELSE StrVal(text[1])

ParamName(p) == IF p.name = None THEN <<>> ELSE p.name[1]

\* C26: the XML path yields one record per Row element, in document order;
\* pass_number is the Pass attribute, 0 when it is absent; each Parameter
\* child gives the entry of its name (the last child of a name decides),
\* typed float when its text has a decimal point, integer otherwise, the raw
\* text when the conversion fails; each of profit_factor, expected_payoff,
\* drawdown, sharpe_ratio, recovery_factor is absent exactly when its
\* element is missing from the Row.
C26_OneRecordPerRow ==
    OptDone /\ file_type = "xml" /\ document.wellformed /\ RowsCarryMetrics
      => /\ opc = "returned"
         /\ Len(results) = Len(document.xrows)
         /\ \A k \in 1..Len(results) :
              LET row == document.xrows[k]
                  rec == results[k]
                  ps == row.params
              IN /\ row.Pass = None => rec.pass_number = 0
                 /\ row.Pass # None /\ IsInt(row.Pass[1])
                      => rec.pass_number = ToInt(row.Pass[1])
                 /\ DOMAIN rec.parameters
                      = {ParamName(ps[j]) : j \in 1..Len(ps)}
                 /\ \A j \in 1..Len(ps) :
                      (\A i \in (j + 1)..Len(ps) :
                         ParamName(ps[i]) # ParamName(ps[j]))
                        => rec.parameters[ParamName(ps[j])]
                             = TypedParam(ps[j].text)
                 /\ (rec.profit_factor = None) = (row.ProfitFactor = Missing)
                 /\ (rec.expected_payoff = None)
                      = (row.ExpectedPayoff = Missing)
                 /\ (rec.drawdown = None) = (row.Drawdown = Missing)
                 /\ (rec.sharpe_ratio = None) = (row.Sharpe = Missing)
                 /\ (rec.recovery_factor = None) = (row.Recovery = Missing)

\* The rule the claim gives the header of a column: the first that matches.
RuleOf(header) ==
    LET h == Lower(header)
        hits == <<Find(h, ProfitWord) # 0 /\ Find(h, FactorWord) = 0,
                  Find(h, TradesWord) # 0,
                  Find(h, ProfitFactorWords) # 0,
                  Find(h, PayoffWord) # 0,
                  Find(h, DrawdownWord) # 0,
                  TRUE>>
    IN CHOOSE r \in 1..6 : hits[r] /\ \A q \in 1..(r - 1) : ~hits[q]

\* The rows of the table that give a record: their indexes from 1 on, the
\* header row being row 0.
DataIndexes(trs) == {i \in 1..(Len(trs) - 1) : Len(trs[i + 1]) >= 2}

\* The k-th smallest element of a set of numbers.
Nth(S, k) == CHOOSE i \in S : Cardinality({j \in S : j <= i}) = k

\* The last of the columns in J, 0 when there is none.
LastOf(J) == IF J = {} THEN 0 ELSE CHOOSE j \in J : \A i \in J : i <= j

\* C28: in the HTML path a column is classified by the first matching rule
\* in the order profit (header has 'profit' and not 'factor'), total_trades
\* ('trades'), profit_factor ('profit factor'), expected_payoff ('payoff'),
\* drawdown ('drawdown'), else user parameter, the first column included; a
\* field takes the value of the last column of its rule whose cell converts
\* and keeps its default otherwise; pass_number is the first cell when it
\* is all digits, else the row index; rows of fewer than two cells give no
\* record.
C28_ColumnsByFirstRule ==
    opc = "returned" /\ file_type = "html" /\ document.table[1] # <<>> =>
      LET trs == document.table[1]
          headers == Stripped(trs[1])
          data == DataIndexes(trs)
      IN /\ Len(results) = Cardinality(data)
         /\ \A k \in 1..Len(results) :
              LET i == Nth(data, k)
                  values == Stripped(trs[i + 1])
                  cols == 1..Min(Len(headers), Len(values))
                  rec == results[k]
                  money(j) == Without(values[j], {",", "$"})
                  percent(j) == Without(values[j], {"%", ","})
                  profits == LastOf({j \in cols : RuleOf(headers[j]) = 1
                                                   /\ IsFloat(money(j))})
                  trades == LastOf({j \in cols : RuleOf(headers[j]) = 2
                                                  /\ IsInt(values[j])})
                  factors == LastOf({j \in cols : RuleOf(headers[j]) = 3
                                                   /\ IsFloat(values[j])})
                  payoffs == LastOf({j \in cols : RuleOf(headers[j]) = 4
                                                   /\ IsFloat(money(j))})
                  drawdowns == LastOf({j \in cols : RuleOf(headers[j]) = 5
                                                     /\ IsFloat(percent(j))})
                  users == {j \in cols : RuleOf(headers[j]) = 6}
              IN /\ rec.pass_number
                      = IF AllDigits(values[1]) THEN DigitsToNat(values[1])
                        ELSE i
                 /\ rec.profit
                      = IF profits = 0 THEN 0 ELSE ToFloat(money(profits))
                 /\ rec.total_trades
                      = IF trades = 0 THEN 0 ELSE ToInt(values[trades])
                 /\ rec.profit_factor
                      = IF factors = 0 THEN None
                        ELSE Some(ToFloat(values[factors]))
                 /\ rec.expected_payoff
                      = IF payoffs = 0 THEN None
                        ELSE Some(ToFloat(money(payoffs)))
                 /\ rec.drawdown
                      = IF drawdowns = 0 THEN None
                        ELSE Some(ToFloat(percent(drawdowns)))
                 /\ DOMAIN rec.parameters = {headers[j] : j \in users}
                 /\ \A j \in users :
                      rec.parameters[headers[j]]
                        = TypedParam(Some(values[
                            LastOf({q \in users : headers[q] = headers[j]})]))

\* A table with a "Profit Factor" column whose first data row has a single
\* cell and whose second starts with a text that is no number: one record,
\* numbered by its row, with the factor read and the profit left at 0.
C28_Witness ==
    /\ opc = "returned"
    /\ file_type = "html"
    /\ document.table # None
    /\ Len(document.table[1]) = 3
    /\ Len(document.table[1][2]) = 1
    /\ Len(document.table[1][1]) >= 2
    /\ Contains(document.table[1][1][2], ProfitFactorWords)
    /\ Len(results) = 1
    /\ results[1].pass_number = 2
    /\ results[1].profit = 0
    /\ results[1].profit_factor # None
    /\ DOMAIN results[1].parameters # {}

(***************************************************************************)
(* Properties of the portfolio objects.                                    *)
(***************************************************************************)
\* C27: constructing a StrategyMetrics raises ValueError exactly when the
\* name is empty, equity < 0, drawdown > 0, correlation is outside [-1, 1]
\* or recovery < 0, so the boundary values 0, -1.0 and 1.0 are accepted;
\* constructing a PortfolioAnalysisRequest raises ValueError exactly when
\* the number of strategies is 0 or greater than 10.
C27_ValidationExact ==
    /\ vpc # "call" =>
         (vpc = "metrics_error")
           = \/ Len(metrics_args.name) = 0
             \/ metrics_args.equity < 0
             \/ metrics_args.drawdown > 0
             \/ metrics_args.correlation < -Unit
             \/ metrics_args.correlation > Unit
             \/ metrics_args.recovery < 0
    /\ vpc \in {"request", "request_error"} =>
         (vpc = "request_error") = (count = 0 \/ count > 10)

\* A request of exactly ten strategies whose values lie on the bounds.
C27_Witness ==
    /\ vpc = "request"
    /\ Len(strategies) = 10
    /\ strategies[1].equity = 0
    /\ strategies[1].drawdown = 0
    /\ strategies[1].correlation = -Unit
    /\ strategies[1].recovery = 0

====
